---- MODULE Spec2Model ----
(***************************************************************************)
(* Digital Marketplace simulator (kubkon/DM-Simulator).                    *)
(*                                                                         *)
(* The module models                                                       *)
(*   - the Bidder of simulator/modules/dm.py (capacity, success reports,   *)
(*     reputation update), driven by arbitrary service_request /           *)
(*     finish_servicing_request calls (SpecBidder);                        *)
(*   - the SimulationEngine control loop (simulator/modules/sim.py is not  *)
(*     part of the source tree, it is modelled from the specification)     *)
(*     driving the DMEventHandler of simulator/modules/dm.py (Spec).       *)
(*   - the reputation rating update mechanisms of BidderHelper, applied    *)
(*     on their own to bounded inputs (SpecReputation);                    *)
(*   - the myopic bidding strategy of BidderHelper, applied on its own     *)
(*     (SpecBidding);                                                      *)
(*   - BidderHelper.method and the Bidder constructor, called with         *)
(*     bounded configurations (SpecHelper);                                *)
(*   - the winner selection of DMEventHandler with the bids of the myopic  *)
(*     strategy searched on its grid (SpecWinner);                         *)
(*   - the Bidder of des/dm.py next to the Bidder of                       *)
(*     simulator/modules/dm.py, both receiving the same calls (SpecRefine);*)
(*   - the batch launch loop of run.py (SpecBatch, FairBatch).             *)
(* FairSpec and FairRun are Spec with the control loop kept running.       *)
(*                                                                         *)
(* Time is counted in integer ticks.  Reputation ratings, costs and bids   *)
(* are fixed-point numbers in units of 1/RepScale.                         *)
(***************************************************************************)
EXTENDS Integers, Sequences, FiniteSets, TLC

VARIABLES
  bidders,      \* bidders[i]: the state of Bidder i (i = 0, 1)
  raised,       \* the exception the last call ended with ("none" if it returned)
  calls,        \* number of calls made by the Bidder driver
  lastCall,     \* history: what the last Bidder call was and what it saw
  alloc,        \* history: request id -> capacity taken from the bidder for it
  clock,        \* SimulationEngine: simulation time
  queue,        \* SimulationEngine: scheduled events, earliest first
  pc,           \* SimulationEngine: "idle", "running", "stopped" or "aborted"
  handler,      \* "dm" (DMEventHandler attached) or "none" (listeners only)
  sr_count,     \* DMEventHandler._sr_count
  prices,       \* DMEventHandler._prices, as a sequence of <<type, weight, bid>>
  dispatched,   \* history: events popped by the control loop, in order
  callbacks,    \* history: the on_start / on_event / on_stop invocations, in order
  leftover,     \* history: the queue at the moment the loop ended
  schedCalls,   \* history: the schedule() calls of the last step
  saved,        \* the records DMEventHandler._save_results has written
  auctions,     \* history: one record per auction run, in order
  probe         \* a strategy function, applied to arguments on its own

bidderVars == <<bidders, raised, calls, lastCall, alloc>>
probeVars == <<probe>>
engineVars == <<clock, queue, pc, handler, sr_count, prices, dispatched,
                callbacks, leftover, schedCalls, saved, auctions>>
vars == <<bidders, raised, calls, lastCall, alloc, clock, queue, pc, handler,
          sr_count, prices, dispatched, callbacks, leftover, schedCalls, saved,
          auctions, probe>>

-----------------------------------------------------------------------------
(* Bounds of the model *)

\* number of Bidder calls the driver of SpecBidder makes
MaxCalls == 4
\* request ids the driver of SpecBidder uses: 1..MaxRequestId
MaxRequestId == 2
\* number of auctions of a run (the cap of the request counter)
MaxAuctions == 2
\* latest time of an event scheduled from outside the handler
MaxTime == 2
\* number of events scheduled before start()
MaxExternal == 2
\* largest window size a reputation update is applied with
MaxWindowSize == 5
\* largest number of success reports a reputation update is applied to
MaxReports == 7
\* number of Bidder(...) constructions
MaxConstructions == 2
\* number of calls the driver of SpecRefine makes on both Bidders
MaxRefineCalls == 6
\* largest number of repetitions run.py is started with
MaxRepetitions == 5
\* largest --batch_size run.py is started with
MaxBatchSize == 3

-----------------------------------------------------------------------------
(* Program constants *)

WEB_BROWSING == 1
EMAIL == 2
WebBitrate == 512
EmailBitrate == 256

ServiceTypes == {WEB_BROWSING, EMAIL}

\* DMEventHandler.BITRATES
BITRATES(service_type) ==
  IF service_type = WEB_BROWSING THEN WebBitrate ELSE EmailBitrate

\* fixed-point unit of reputations, costs and bids
RepScale == 60 * 100

-----------------------------------------------------------------------------
(* Helpers *)

RECURSIVE SumSeq(_)
SumSeq(s) == IF s = <<>> THEN 0 ELSE Head(s) + SumSeq(Tail(s))

\* sum(d.values()) of a dictionary d with numeric values
RECURSIVE SumValues(_)
SumValues(d) ==
  IF DOMAIN d = {} THEN 0
  ELSE LET k == CHOOSE x \in DOMAIN d : TRUE
       IN  d[k] + SumValues([x \in DOMAIN d \ {k} |-> d[x]])

\* d with d[k] = v added or overwritten
DictPut(d, k, v) == [x \in DOMAIN d \cup {k} |-> IF x = k THEN v ELSE d[x]]

\* d with the key k deleted
DictDel(d, k) == [x \in DOMAIN d \ {k} |-> d[x]]

EmptyDict == [x \in {} |-> 0]

-----------------------------------------------------------------------------
(* BidderHelper: reputation rating update mechanisms *)

\* success_list[len(success_list)-window_size:]
LastEntries(success_list, window_size) ==
  SubSeq(success_list, Len(success_list) - window_size + 1, Len(success_list))

\* (mutant) the sum of the reports is not divided by the window size
lebodics_reputation_update_unscaled(window_size, reputation, success_list) ==
  IF Len(success_list) >= window_size
  THEN RepScale - SumSeq(LastEntries(success_list, window_size)) * RepScale
  ELSE reputation

\* (mutant) the rating is computed from the oldest window_size reports
lebodics_reputation_update_oldest(window_size, reputation, success_list) ==
  IF Len(success_list) >= window_size
  THEN RepScale - (SumSeq(SubSeq(success_list, 1, window_size)) * RepScale) \div window_size
  ELSE reputation

lebodics_reputation_update(window_size, reputation, success_list) ==
  IF Len(success_list) >= window_size
  THEN RepScale - (SumSeq(LastEntries(success_list, window_size)) * RepScale) \div window_size
  ELSE reputation

\* (mutant) the rating is neither floored at 0 nor capped at 1
mcdiarmids_reputation_update_unclamped(commitment, reputation, success_list) ==
  IF success_list[Len(success_list)] = 1
  THEN reputation - RepScale \div 100
  ELSE reputation + (commitment * RepScale) \div (100 * (100 - commitment))

\* commitment is given in percent; 0.01 is RepScale \div 100
mcdiarmids_reputation_update(commitment, reputation, success_list) ==
  IF success_list[Len(success_list)] = 1
  THEN IF reputation >= RepScale \div 100 THEN reputation - RepScale \div 100 ELSE 0
  ELSE LET penalty == (commitment * RepScale) \div (100 * (100 - commitment))
       IN  IF reputation + penalty <= RepScale THEN reputation + penalty ELSE RepScale

\* the function BidderHelper.method(reputation_params) is bound to
reputation_update_method(params, reputation, success_list) ==
  IF params.method = "lebodic"
  THEN lebodics_reputation_update(params.window_size, reputation, success_list)
  ELSE mcdiarmids_reputation_update(params.commitment, reputation, success_list)

-----------------------------------------------------------------------------
(* BidderHelper: myopic bidding.  Price weights are given in percent.      *)

\* w percent of x
Share(w, x) == (w * x) \div 100

\* float('inf'), the bid for price weight 0: a value above every finite bid
Infinity == RepScale * RepScale

\* v = [(1-w)*rep, (1-w)*rep + w]
ValuationLow(w, rep) == Share(100 - w, rep)
ValuationHigh(w, rep) == Share(100 - w, rep) + Share(w, RepScale)

\* b[0] and b[1], the bid bounds of the nontrivial equilibrium
BidBoundLow(w, rep, enemy) ==
  ( (ValuationHigh(w, rep) + ValuationHigh(w, enemy))
      * (ValuationHigh(w, rep) + ValuationHigh(w, enemy))
    - 4 * ValuationLow(w, rep) * ValuationLow(w, enemy) )
  \div (8 * Share(w, RepScale))
BidBoundHigh(w, rep, enemy) ==
  (ValuationHigh(w, rep) + ValuationHigh(w, enemy)) \div 2

\* The entry of bids_hat picked by the nearest-implied-cost search.  Where
\* the curve is the closed-form exponential one, the index the search finds
\* is not computed: `sample` says whether it is the first or the last entry
\* of np.linspace(lo, hi, granularity).
SampleIdx == {0, 1}
Sampled(lo, hi, sample) == IF sample = 0 THEN lo ELSE hi

\* estimate_bid_hat_function followed by bids_hat[dist.index(min(dist))]
bid_hat(w, cost, rep, enemy, sample) ==
  IF ValuationHigh(w, enemy) >= ValuationHigh(w, rep)
  THEN IF ValuationHigh(w, rep) <= 2 * ValuationLow(w, enemy) - ValuationHigh(w, enemy)
       THEN ValuationLow(w, enemy)
       ELSE Sampled(BidBoundLow(w, rep, enemy), BidBoundHigh(w, rep, enemy), sample)
  ELSE IF ValuationHigh(w, enemy) <= 2 * ValuationLow(w, rep) - ValuationHigh(w, rep)
       THEN ValuationLow(w, rep) + Share(w, cost)
       ELSE Sampled(BidBoundLow(w, rep, enemy), ValuationHigh(w, rep), sample)

\* does the bid depend on the sampled exponential curve?
uses_sample(w, rep, enemy) ==
  /\ w # 0 /\ w # 100 /\ rep # enemy
  /\ IF ValuationHigh(w, enemy) >= ValuationHigh(w, rep)
     THEN ~(ValuationHigh(w, rep) <= 2 * ValuationLow(w, enemy) - ValuationHigh(w, enemy))
     ELSE ~(ValuationHigh(w, enemy) <= 2 * ValuationLow(w, rep) - ValuationHigh(w, rep))

\* (mutant) price weight 0 is bid for like price weight 1
myopic_bidding_no_sentinel(price_weight, cost, reputation, enemy_reputation, sample) ==
  IF price_weight # 0 /\ price_weight # 100 /\ reputation # enemy_reputation
  THEN ( (bid_hat(price_weight, cost, reputation, enemy_reputation, sample)
            - Share(100 - price_weight, reputation)) * 100 ) \div price_weight
  ELSE (RepScale + cost) \div 2

myopic_bidding(price_weight, cost, reputation, enemy_reputation, sample) ==
  IF price_weight # 0 /\ price_weight # 100 /\ reputation # enemy_reputation
  THEN ( (bid_hat(price_weight, cost, reputation, enemy_reputation, sample)
            - Share(100 - price_weight, reputation)) * 100 ) \div price_weight
  ELSE IF price_weight = 0
       THEN Infinity
       ELSE (RepScale + cost) \div 2

-----------------------------------------------------------------------------
(* BidderHelper: myopic bidding with the nearest-implied-cost search       *)
(* carried out.  estimate_bid_hat_function samples the inverse bid         *)
(* function vf on a grid of `granularity` bids, and myopic_bidding picks   *)
(* the first grid bid whose implied cost is nearest to the bidder's own.   *)
(* Floating point is replaced by fixed point: bids and valuations in       *)
(* units of 1/RepScale, implied costs in units of 1/(Fine*RepScale),       *)
(* exponents in units of 1/ArgScale, exponentials in units of 1/ExpScale.  *)

\* granularity=1000
Granularity == 1000

\* fixed-point resolutions
ArgScale == 10000
ExpScale == 10000
Fine == 10

\* exponents above ExpCap are not evaluated: the exponential term then
\* dominates the denominator of vf and vf is taken to be v1[1], the value
\* the overflow handler of vf returns
ExpCap == 6 * ArgScale

\* x * y / s without leaving 32 bits (y >= 0, s > 0)
MulDiv(x, y, s) == x * (y \div s) + (x * (y % s)) \div s

\* partial sums of the exponential series for an exponent a <= 1/2:
\* `term` is the n-th term, `sum` the sum up to it
RECURSIVE ExpSeries(_, _, _, _)
ExpSeries(a, n, term, sum) ==
  IF n = 8 THEN sum
  ELSE LET next == (term * a) \div (ArgScale * (n + 1))
       IN  ExpSeries(a, n + 1, next, sum + next)

\* np.exp(a / ArgScale) * ExpScale for 0 <= a <= ExpCap
RECURSIVE Exp(_)
Exp(a) ==
  IF a <= ArgScale \div 2 THEN ExpSeries(a, 0, ExpScale, ExpScale)
  ELSE LET half == Exp(a \div 2)
           square == MulDiv(half, half, ExpScale)
       IN  IF a % 2 = 1
           THEN MulDiv(square, ExpSeries(1, 0, ExpScale, ExpScale), ExpScale)
           ELSE square

\* the inverse bid function vf of the nontrivial equilibrium at the bid x
\* (with v2[1] + v1[1] - 2x > 0), in units of 1/(Fine*RepScale):
\*   v1[1] + (v2[1]-v1[1])**2
\*             / (c1*(v2[1]+v1[1]-2x)*exp((v2[1]-v1[1])/(v2[1]+v1[1]-2x))
\*                + 4*(v2[1]-x))
\* where c1 = k * exp((v2[1]-v1[1]) / (2*(b[0]-b[1]))), so that the two
\* exponentials are one, of the exponent `arg`
vf(w, rep, enemy, x) ==
  LET v1h == ValuationHigh(w, rep)
      v2h == ValuationHigh(w, enemy)
      d  == v2h - v1h
      u0 == v2h + v1h - 2 * BidBoundLow(w, rep, enemy)
      u  == v2h + v1h - 2 * x
      \* -k * u0 = ((v2[1]-v1[1])**2 + 4*(b[0]-v2[1])*(v1[0]-v1[1])) / w
      ku0 == (d * d + 4 * Share(w, RepScale) * (v2h - BidBoundLow(w, rep, enemy)))
               \div Share(w, RepScale)
      ku == (ku0 * u) \div u0
      arg == (d * ArgScale) \div u - (d * ArgScale) \div u0
      e == IF d >= 0 THEN Exp(arg)
           ELSE IF 0 - arg > ExpCap THEN 0
           ELSE (ExpScale * ExpScale) \div Exp(0 - arg)
      den == 4 * Fine * (v2h - x) - MulDiv(ku, e, ExpScale \div Fine)
  IN  IF (d >= 0 /\ arg > ExpCap) \/ den = 0
      THEN Fine * v1h
      ELSE Fine * v1h + (Fine * Fine * d * d) \div den

\* the upper end of the sampled bids: b[1], or v1[1] when the bidder's
\* valuations lie above the enemy's
GridHigh(w, rep, enemy) ==
  IF ValuationHigh(w, enemy) >= ValuationHigh(w, rep)
  THEN BidBoundHigh(w, rep, enemy)
  ELSE ValuationHigh(w, rep)

\* bids[i] of np.linspace(b[0], ..., granularity), i = 0 .. granularity-1
GridBid(w, rep, enemy, i) ==
  BidBoundLow(w, rep, enemy)
    + ((GridHigh(w, rep, enemy) - BidBoundLow(w, rep, enemy)) * i) \div (Granularity - 1)

\* graph_vf[i]: vf up to b[1], the bid itself above it (at b[1] itself,
\* where vf divides by zero, the limit of vf, which is b[1])
GraphVf(w, rep, enemy, i) ==
  LET x == GridBid(w, rep, enemy, i)
  IN  IF ValuationHigh(w, enemy) >= ValuationHigh(w, rep)
      THEN IF ValuationHigh(w, rep) + ValuationHigh(w, enemy) - 2 * x > 0
           THEN vf(w, rep, enemy, x)
           ELSE Fine * ValuationHigh(w, rep)
      ELSE IF ValuationHigh(w, rep) + ValuationHigh(w, enemy) - 2 * x > 0
           THEN vf(w, rep, enemy, x)
           ELSE Fine * x

\* dist[i] = |costs_hat[i] - ((1-price_weight)*reputation + cost*price_weight)|
Dist(w, cost, rep, enemy, i) ==
  LET target == Fine * (ValuationLow(w, rep) + Share(w, cost))
      y == GraphVf(w, rep, enemy, i)
  IN  IF y >= target THEN y - target ELSE target - y

\* dist.index(min(dist)) over the indices lo..hi, as <<distance, index>>:
\* the first index of the least distance
RECURSIVE Nearest(_, _, _, _, _, _)
Nearest(w, cost, rep, enemy, lo, hi) ==
  IF lo = hi THEN <<Dist(w, cost, rep, enemy, lo), lo>>
  ELSE LET mid == (lo + hi) \div 2
           left == Nearest(w, cost, rep, enemy, lo, mid)
           right == Nearest(w, cost, rep, enemy, mid + 1, hi)
       IN  IF right[1] < left[1] THEN right ELSE left

\* (mutant) the first sampled bid is taken instead of the nearest
bid_hat_first_sample(w, cost, rep, enemy) ==
  IF ValuationHigh(w, enemy) >= ValuationHigh(w, rep)
  THEN IF ValuationHigh(w, rep) <= 2 * ValuationLow(w, enemy) - ValuationHigh(w, enemy)
       THEN ValuationLow(w, enemy)
       ELSE GridBid(w, rep, enemy, 0)
  ELSE IF ValuationHigh(w, enemy) <= 2 * ValuationLow(w, rep) - ValuationHigh(w, rep)
       THEN ValuationLow(w, rep) + Share(w, cost)
       ELSE GridBid(w, rep, enemy, 0)

\* estimate_bid_hat_function followed by bids_hat[dist.index(min(dist))],
\* the index searched for
bid_hat_searched(w, cost, rep, enemy) ==
  IF ValuationHigh(w, enemy) >= ValuationHigh(w, rep)
  THEN IF ValuationHigh(w, rep) <= 2 * ValuationLow(w, enemy) - ValuationHigh(w, enemy)
       THEN ValuationLow(w, enemy)
       ELSE GridBid(w, rep, enemy, Nearest(w, cost, rep, enemy, 0, Granularity - 1)[2])
  ELSE IF ValuationHigh(w, enemy) <= 2 * ValuationLow(w, rep) - ValuationHigh(w, rep)
       THEN ValuationLow(w, rep) + Share(w, cost)
       ELSE GridBid(w, rep, enemy, Nearest(w, cost, rep, enemy, 0, Granularity - 1)[2])

\* BidderHelper.myopic_bidding, the index searched for
myopic_bidding_searched(price_weight, cost, reputation, enemy_reputation) ==
  IF price_weight # 0 /\ price_weight # 100 /\ reputation # enemy_reputation
  THEN ( (bid_hat_searched(price_weight, cost, reputation, enemy_reputation)
            - Share(100 - price_weight, reputation)) * 100 ) \div price_weight
  ELSE IF price_weight = 0
       THEN Infinity
       ELSE (RepScale + cost) \div 2

-----------------------------------------------------------------------------
(* BidderHelper: the method registry.  A params dict is a function from   *)
(* its keys to its values.                                                 *)

\* the exception classes simulator/errors.py defines
ErrorClasses ==
  {"Error", "BiddingMethodError", "ReputationUpdateMethodError",
   "UninitializedArgumentError"}

\* raise errors.<name>(...): the exception that propagates.  Looking up a
\* name the errors module does not define raises AttributeError.
raise_error(name) == IF name \in ErrorClasses THEN name ELSE "AttributeError"

\* BidderHelper.implemented_methods
implemented_methods ==
  [ lebodic   |-> [method |-> "lebodics_reputation_update", params |-> <<"window_size">>],
    mcdiarmid |-> [method |-> "mcdiarmids_reputation_update", params |-> <<"commitment">>],
    myopic    |-> [method |-> "myopic_bidding", params |-> <<>>] ]

\* BidderHelper.method: the exception it ends with, "none" if it returns
method_raises(params) ==
  IF "method" \notin DOMAIN params
  THEN raise_error("UnknownMethodError")
  ELSE IF params["method"] \notin DOMAIN implemented_methods
  THEN raise_error("UnknownMethodError")
  ELSE LET required == implemented_methods[params["method"]].params
       IN  IF \E i \in 1..Len(required) : required[i] \notin DOMAIN params
           THEN raise_error("UnknownMethodError")
           ELSE "none"

\* (mutant) the function is bound to whatever parameter the dict holds
method_binds_any(params) ==
  [ func |-> implemented_methods[params["method"]].method,
    args |-> IF "window_size" \in DOMAIN params THEN <<params["window_size"]>>
             ELSE IF "commitment" \in DOMAIN params THEN <<params["commitment"]>>
             ELSE <<>> ]

\* BidderHelper.method, when it returns: functools.partial(func, *args)
method(params) ==
  LET required == implemented_methods[params["method"]].params
  IN  [ func |-> implemented_methods[params["method"]].method,
        args |-> [i \in 1..Len(required) |-> params[required[i]]] ]

-----------------------------------------------------------------------------
(* Bidder *)

\* Bidder.__init__ with all five arguments given
NewBidder(id, total_bitrate, costs, reputation, reputation_params) ==
  [ id                 |-> id,
    costs              |-> costs,
    reputation         |-> reputation,
    total_bitrate      |-> total_bitrate,
    available_bitrate  |-> total_bitrate,
    reputation_params  |-> reputation_params,
    reputation_history |-> <<>>,
    winning_history    |-> <<>>,
    success_list       |-> <<>>,
    dedicated_bitrates |-> EmptyDict ]

\* a keyword argument left at its default None, and one that is given
None == <<>>
Given(value) == <<value>>
IsNone(arg) == Len(arg) = 0

\* the keyword arguments of Bidder.__init__
ArgNames ==
  {"total_bitrate", "costs", "bidding_params", "reputation", "reputation_params"}

\* (mutant) an argument that is 0 or empty counts as missing
bidder_init_raises_falsy(args) ==
  IF \E a \in ArgNames : IsNone(args[a])
  THEN raise_error("UninitializedArgumentError")
  ELSE IF args["total_bitrate"][1] = 0 \/ args["reputation"][1] = 0
  THEN raise_error("UninitializedArgumentError")
  ELSE IF method_raises(args["bidding_params"][1]) # "none"
  THEN method_raises(args["bidding_params"][1])
  ELSE method_raises(args["reputation_params"][1])

\* Bidder._id_counter after Bidder.__init__: the id is taken once the
\* arguments are found present, before the methods are resolved
next_id_counter(args, id_counter) ==
  IF \E a \in ArgNames : IsNone(args[a]) THEN id_counter ELSE id_counter + 1

\* Bidder.__init__, when it returns: the Bidder it has set up
bidder_init(args, id) ==
  NewBidder(id, args["total_bitrate"][1], args["costs"][1], args["reputation"][1],
            args["reputation_params"][1])

\* Bidder.__init__: the exception it ends with, "none" if it returns
bidder_init_raises(args) ==
  IF \E a \in ArgNames : IsNone(args[a])
  THEN raise_error("UninitializedArgumentError")
  ELSE IF method_raises(args["bidding_params"][1]) # "none"
  THEN method_raises(args["bidding_params"][1])
  ELSE method_raises(args["reputation_params"][1])

\* Bidder._update_success_list
update_success_list(b, service_type) ==
  IF b.available_bitrate >= BITRATES(service_type)
  THEN [b EXCEPT !.success_list = Append(@, 1)]
  ELSE [b EXCEPT !.success_list = Append(@, 0)]

\* (mutant) the full requirement is recorded although less is taken
allocate_bitrate_nominal_record(b, sr_number, service_type) ==
  LET sr_bitrate == BITRATES(service_type)
  IN  IF b.available_bitrate >= sr_bitrate
      THEN [b EXCEPT !.dedicated_bitrates = DictPut(@, sr_number, sr_bitrate),
                     !.available_bitrate = @ - sr_bitrate]
      ELSE [b EXCEPT !.dedicated_bitrates = DictPut(@, sr_number, sr_bitrate),
                     !.available_bitrate = 0]

\* (mutant) the allocation takes the full requirement although less is left
allocate_bitrate_overdraw(b, sr_number, service_type) ==
  LET sr_bitrate == BITRATES(service_type)
  IN  [b EXCEPT !.dedicated_bitrates = DictPut(@, sr_number, sr_bitrate),
                !.available_bitrate = @ - sr_bitrate]

\* Bidder._update_available_bitrate with a service type: allocation
allocate_bitrate(b, sr_number, service_type) ==
  LET sr_bitrate == BITRATES(service_type)
  IN  IF b.available_bitrate >= sr_bitrate
      THEN [b EXCEPT !.dedicated_bitrates = DictPut(@, sr_number, sr_bitrate),
                     !.available_bitrate = @ - sr_bitrate]
      ELSE [b EXCEPT !.dedicated_bitrates = DictPut(@, sr_number, b.available_bitrate),
                     !.available_bitrate = 0]

\* Bidder._update_available_bitrate without a service type: release.
\* The lookup self._dedicated_bitrates[sr_number] raises KeyError for an
\* unknown request id, before anything is changed.
release_raises(b, sr_number) ==
  IF sr_number \in DOMAIN b.dedicated_bitrates THEN "none" ELSE "KeyError"

\* (mutant) the release returns the requirement of a web-browsing request
\* instead of what was dedicated
release_bitrate_nominal(b, sr_number) ==
  [b EXCEPT !.dedicated_bitrates = DictDel(@, sr_number),
            !.available_bitrate = @ + WebBitrate]

release_bitrate(b, sr_number) ==
  LET sr_bitrate == b.dedicated_bitrates[sr_number]
  IN  [b EXCEPT !.dedicated_bitrates = DictDel(@, sr_number),
                !.available_bitrate = @ + sr_bitrate]

\* (mutant) the success indicator is computed after the allocation
service_request_late_indicator(b, sr_number, service_type) ==
  LET b1 == allocate_bitrate(b, sr_number, service_type)
      b2 == update_success_list(b1, service_type)
  IN  [b2 EXCEPT !.reputation =
         reputation_update_method(b2.reputation_params, b2.reputation, b2.success_list)]

\* Bidder.service_request
service_request(b, sr_number, service_type) ==
  LET b1 == update_success_list(b, service_type)
      b2 == allocate_bitrate(b1, sr_number, service_type)
  IN  [b2 EXCEPT !.reputation =
         reputation_update_method(b2.reputation_params, b2.reputation, b2.success_list)]

\* (mutant) the capacity is given back but the dedication record is kept
finish_servicing_request_keeps_record(b, sr_number) ==
  [b EXCEPT !.available_bitrate = @ + b.dedicated_bitrates[sr_number]]

\* (mutant) the release gives back everything the bidder has dedicated
finish_servicing_request_all(b, sr_number) ==
  [b EXCEPT !.dedicated_bitrates = EmptyDict,
            !.available_bitrate = b.total_bitrate]

\* Bidder.finish_servicing_request (when it does not raise)
finish_servicing_request(b, sr_number) == release_bitrate(b, sr_number)

\* (mutant) a cost is drawn on every call
generate_cost_always(b, service_type, draw) ==
  [b EXCEPT !.costs = DictPut(@, service_type, draw)]

\* Bidder._generate_cost: `draw` is the value se.prng.uniform(0,1) returns
generate_cost(b, service_type, draw) ==
  IF service_type \notin DOMAIN b.costs
  THEN [b EXCEPT !.costs = DictPut(@, service_type, draw)]
  ELSE b

\* Bidder.submit_bid: the state it leaves behind ...
submit_bid(b, service_type, draw) ==
  [generate_cost(b, service_type, draw) EXCEPT
     !.reputation_history = Append(@, b.reputation)]

\* ... and the bid it returns
submitted_bid(b, service_type, price_weight, enemy_reputation, draw, sample) ==
  myopic_bidding(price_weight, generate_cost(b, service_type, draw).costs[service_type],
                 b.reputation, enemy_reputation, sample)

\* (mutant) the outcome of the auction is recorded instead of the running
\* total
update_winning_history_plain(b, has_won) ==
  [b EXCEPT !.winning_history = Append(@, IF has_won THEN 1 ELSE 0)]

\* Bidder.update_winning_history
update_winning_history(b, has_won) ==
  LET value == IF has_won THEN 1 ELSE 0
  IN  IF b.winning_history # <<>>
      THEN [b EXCEPT !.winning_history =
              Append(@, b.winning_history[Len(b.winning_history)] + value)]
      ELSE [b EXCEPT !.winning_history = Append(@, value)]

-----------------------------------------------------------------------------
(* Events and the SimulationEngine (modelled from the specification:       *)
(* simulator/modules/sim.py is not in the source tree)                     *)

SR_EVENT == "service_request"
ST_EVENT == "service_termination"
STOP_EVENT == "stop"
DUMMY_EVENT == "Dummy"

\* sim.Event(identifier, time, bundle=bundle)
Event(identifier, time, bundle) ==
  [identifier |-> identifier, time |-> time, bundle |-> bundle]

NoBundle == <<0, 0>>

\* the simulation time of a new engine
StartTime == 0

\* (mutant) schedule accepts any event
schedule_never_raises(event, now) == "none"

\* schedule(event) fails with InvalidScheduleError if event.time < clock
schedule_raises(event, now) ==
  IF event.time < now THEN "InvalidScheduleError" ELSE "none"

\* position of a new event in the queue: behind every queued event that is
\* not later than it (earliest first, FIFO among equal times)
InsertPos(q, event) ==
  Cardinality({i \in 1..Len(q) : q[i].time <= event.time})

\* (mutant) the event is put at the end of the queue
schedule_append(q, event) == Append(q, event)

\* the queue after schedule(event) has inserted the event
schedule_insert(q, event) ==
  LET n == InsertPos(q, event)
  IN  SubSeq(q, 1, n) \o <<event>> \o SubSeq(q, n + 1, Len(q))

\* the queue after schedule(event): unchanged when the call raises
schedule(q, event, now) ==
  IF schedule_raises(event, now) = "none" THEN schedule_insert(q, event) ELSE q

\* history record of one schedule() call
SchedCall(q, event, now) ==
  [ event |-> event, time |-> event.time, clock |-> now,
    raised |-> schedule_raises(event, now),
    queued |-> Len(schedule(q, event, now)) = Len(q) + 1 ]

\* stop(at_time): schedules the terminal Stop event at clock + at_time
stop_event(now, at_time) == Event(STOP_EVENT, now + at_time, NoBundle)

\* (mutant) the clock is left alone
keep_clock(now, event) == now

\* the control loop sets the clock to the time of the event it has popped
advance_clock(now, event) == event.time

\* (mutant) the Stop event is dispatched like any other event
never_terminal(event) == FALSE

\* the control loop tells a terminal event from the others
is_terminal(event) == event.identifier = STOP_EVENT

\* the invocations of the handler and the listeners
NoEvent == Event("", 0, NoBundle)
notify_start(log) == Append(log, [kind |-> "on_start", event |-> NoEvent])
notify_event(log, event) == Append(log, [kind |-> "on_event", event |-> event])
\* (mutants) on_stop is invoked twice; on_stop is not invoked
notify_stop_twice(log) ==
  log \o <<[kind |-> "on_stop", event |-> NoEvent], [kind |-> "on_stop", event |-> NoEvent]>>
notify_stop_skipped(log) == log

notify_stop(log) == Append(log, [kind |-> "on_stop", event |-> NoEvent])

-----------------------------------------------------------------------------
(* DMEventHandler *)

\* values prng.uniform(0,1) returns for a cost
CostDraws == {RepScale \div 4, (3 * RepScale) \div 4}

\* the buyers _generate_sr_event draws: <<price weight, service type, delta
\* time>>, the price weight a member of _w_space in percent, the delta time
\* a value of prng.exponential(1 / interarrival_rate) in ticks
ArrivalDraws ==
  { <<50, WEB_BROWSING, 1>>, <<100, WEB_BROWSING, 0>>,
    <<50, EMAIL, 0>>, <<100, EMAIL, 1>> }

\* DMEventHandler.duration, the constant service duration: one tick
Duration == 1

\* DMEventHandler._w_space = np.linspace(0.01, 1, 100), in percent
W_SPACE == 1..100

\* (mutant) the inter-arrival time is taken off the base time
generate_sr_event_early(base_time, price_weight, service_type, delta_time) ==
  Event(SR_EVENT, base_time - delta_time, <<price_weight, service_type>>)

\* DMEventHandler._generate_sr_event
generate_sr_event(base_time, price_weight, service_type, delta_time) ==
  Event(SR_EVENT, base_time + delta_time, <<price_weight, service_type>>)

\* (mutant) the termination event is due at the time of the arrival
generate_st_event_immediate(base_time, bundle) ==
  Event(ST_EVENT, base_time, bundle)

\* (mutant) the service duration is taken off the base time
generate_st_event_backdated(base_time, bundle) ==
  Event(ST_EVENT, base_time - Duration, bundle)

\* DMEventHandler._generate_st_event
generate_st_event(base_time, bundle) ==
  Event(ST_EVENT, base_time + Duration, bundle)

\* price_weight*bids[i] + (1-price_weight)*self.bidders[i].reputation
compound_bid(price_weight, bid, reputation) ==
  Share(price_weight, bid) + Share(100 - price_weight, reputation)

\* (mutant) equal compound bids are won by the first bidder, without a draw
select_winner_no_draw(bs, price_weight, bids, coin) ==
  LET c0 == compound_bid(price_weight, bids[0], bs[0].reputation)
      c1 == compound_bid(price_weight, bids[1], bs[1].reputation)
  IN  IF c0 <= c1 THEN 0 ELSE 1

\* DMEventHandler._select_winner: the index of the winner, given the two
\* bids; `coin` is the value prng.randint(2) returns
select_winner(bs, price_weight, bids, coin) ==
  LET c0 == compound_bid(price_weight, bids[0], bs[0].reputation)
      c1 == compound_bid(price_weight, bids[1], bs[1].reputation)
  IN  IF c0 < c1 THEN 0
      ELSE IF c0 > c1 THEN 1
      ELSE coin

is_tie(bs, price_weight, bids) ==
  compound_bid(price_weight, bids[0], bs[0].reputation)
    = compound_bid(price_weight, bids[1], bs[1].reputation)

\* the bids the two bidders return in _select_winner
auction_bids(bs, event, draws, samples) ==
  [i \in {0, 1} |->
     submitted_bid(bs[i], event.bundle[2], event.bundle[1],
                   bs[1 - i].reputation, draws[i], samples[i])]

\* (mutant) the request counter is advanced by two
next_sr_count_skip(count) == count + 2

\* self._sr_count += 1
next_sr_count(count) == count + 1

\* (mutant) the auction also files a failure report with the loser
run_auction_reports_loser(bs, count, ps, event, draws, samples, coin) ==
  LET price_weight == event.bundle[1]
      service_type == event.bundle[2]
      new_count == next_sr_count(count)
      bids == auction_bids(bs, event, draws, samples)
      bs1 == [i \in {0, 1} |-> submit_bid(bs[i], service_type, draws[i])]
      winner == select_winner(bs1, price_weight, bids, coin)
      win_bid == submitted_bid(bs1[winner], service_type, price_weight,
                               bs1[1 - winner].reputation, draws[winner], samples[winner])
      bs2 == [bs1 EXCEPT ![winner] = submit_bid(@, service_type, draws[winner])]
      bs3 == [i \in {0, 1} |-> update_winning_history(bs2[i], i = winner)]
      bs4 == [bs3 EXCEPT ![winner] = service_request(@, new_count, service_type),
                         ![1 - winner].success_list = Append(@, 0)]
  IN  [ bidders |-> bs4, sr_count |-> new_count,
        prices |-> Append(ps, <<service_type, price_weight, win_bid>>),
        winner |-> winner ]

\* (mutant) every bidder is credited with the auction
run_auction_credits_both(bs, count, ps, event, draws, samples, coin) ==
  LET price_weight == event.bundle[1]
      service_type == event.bundle[2]
      new_count == next_sr_count(count)
      bids == auction_bids(bs, event, draws, samples)
      bs1 == [i \in {0, 1} |-> submit_bid(bs[i], service_type, draws[i])]
      winner == select_winner(bs1, price_weight, bids, coin)
      win_bid == submitted_bid(bs1[winner], service_type, price_weight,
                               bs1[1 - winner].reputation, draws[winner], samples[winner])
      bs2 == [bs1 EXCEPT ![winner] = submit_bid(@, service_type, draws[winner])]
      bs3 == [i \in {0, 1} |-> update_winning_history(bs2[i], TRUE)]
      bs4 == [bs3 EXCEPT ![winner] = service_request(@, new_count, service_type)]
  IN  [ bidders |-> bs4, sr_count |-> new_count,
        prices |-> Append(ps, <<service_type, price_weight, win_bid>>),
        winner |-> winner ]

\* DMEventHandler._run_auction up to the scheduling of the termination
\* event: the bidders, counter and prices it leaves, and the winner
run_auction(bs, count, ps, event, draws, samples, coin) ==
  LET price_weight == event.bundle[1]
      service_type == event.bundle[2]
      new_count == next_sr_count(count)
      \* _select_winner: both bidders submit a bid
      bids == auction_bids(bs, event, draws, samples)
      bs1 == [i \in {0, 1} |-> submit_bid(bs[i], service_type, draws[i])]
      winner == select_winner(bs1, price_weight, bids, coin)
      \* the winner submits its bid once more
      win_bid == submitted_bid(bs1[winner], service_type, price_weight,
                               bs1[1 - winner].reputation, draws[winner], samples[winner])
      bs2 == [bs1 EXCEPT ![winner] = submit_bid(@, service_type, draws[winner])]
      bs3 == [i \in {0, 1} |-> update_winning_history(bs2[i], i = winner)]
      bs4 == [bs3 EXCEPT ![winner] = service_request(@, new_count, service_type)]
  IN  [ bidders |-> bs4, sr_count |-> new_count,
        prices |-> Append(ps, <<service_type, price_weight, win_bid>>),
        winner |-> winner ]

\* history record of one auction: what the bidders were rated and what their
\* compound bids were when the winner was selected, the value `coin` that
\* prng.randint(2) holds ready, the costs prng.uniform(0,1) was asked for
\* (0: not asked), and the outcome
AuctionRecord(bs, event, draws, samples, coin, r) ==
  LET bids == auction_bids(bs, event, draws, samples)
  IN  [ sr_number  |-> r.sr_count,
        time       |-> event.time,
        reputation |-> [i \in {0, 1} |-> bs[i].reputation],
        compound   |-> [i \in {0, 1} |->
                          compound_bid(event.bundle[1], bids[i], bs[i].reputation)],
        coin       |-> coin,
        draws      |-> draws,
        winner     |-> r.winner ]

\* zip(range(1, self._sr_count+1), history)
Zip(count, history) ==
  [k \in 1..(IF count < Len(history) THEN count ELSE Len(history)) |-> <<k, history[k]>>]

NoResults ==
  [ reputation |-> [i \in {0, 1} |-> <<>>],
    winnings |-> [i \in {0, 1} |-> <<>>],
    prices |-> <<>> ]

\* DMEventHandler._save_results
save_results(bs, count, ps) ==
  [ reputation |-> [i \in {0, 1} |-> Zip(count, bs[i].reputation_history)],
    winnings |-> [i \in {0, 1} |-> Zip(count, bs[i].winning_history)],
    prices |-> ps ]

\* DMEventHandler.handle_stop
handle_stop(bs, count, ps) == save_results(bs, count, ps)

\* what on_stop leaves in `saved`: listeners alone write nothing
on_stop(h, bs, count, ps) ==
  IF h = "dm" THEN handle_stop(bs, count, ps) ELSE NoResults

-----------------------------------------------------------------------------
(* The Bidder driver: any sequence of service_request and                  *)
(* finish_servicing_request calls on Bidder 0, as a test or any other      *)
(* caller can issue them.                                                  *)

RequestIds == 1..MaxRequestId

\* total bit-rates the bidders are created with
TotalBitrates == {0, 300, 1000}

\* reputation_params the bidders are created with
ReputationParams ==
  { [method |-> "lebodic", window_size |-> 2, commitment |-> 0],
    [method |-> "mcdiarmid", window_size |-> 0, commitment |-> 80] }

\* no function applied
NoProbe ==
  [ fn |-> "none", window_size |-> 0, commitment |-> 0, reputation |-> 0,
    success_list |-> <<>>, result |-> 0 - 1 ]

NoCall ==
  [ op |-> "none", sr_number |-> 0, service_type |-> 0, pre_available |-> 0,
    in_service |-> FALSE, given |-> -1, after_fresh_request |-> FALSE,
    request_pre_available |-> 0 ]

\* the state of the engine and handler before anything is scheduled
EngineIdle ==
  /\ clock = 0
  /\ queue = <<>>
  /\ pc = "idle"
  /\ handler = "none"
  /\ sr_count = 0
  /\ prices = <<>>
  /\ auctions = <<>>
  /\ dispatched = <<>>
  /\ callbacks = <<>>
  /\ leftover = <<>>
  /\ schedCalls = <<>>
  /\ saved = NoResults

\* reputations the bidders are created with: 0, 0.5 and 1
DriverReputations == {0, RepScale \div 2, RepScale}

InitBidder ==
  /\ \E t \in TotalBitrates, rp \in ReputationParams, r \in DriverReputations :
       bidders = [i \in {0, 1} |->
                    NewBidder(i, t, (WEB_BROWSING :> RepScale \div 2), r, rp)]
  /\ raised = "none"
  /\ calls = 0
  /\ lastCall = NoCall
  /\ alloc = EmptyDict
  /\ probe = NoProbe
  /\ EngineIdle

\* bidders[0].service_request(sr_number, service_type)
CallServiceRequest(sr_number, service_type) ==
  LET b  == bidders[0]
      b2 == service_request(b, sr_number, service_type)
      fresh == sr_number \notin DOMAIN b.dedicated_bitrates
  IN  /\ calls < MaxCalls
      /\ calls' = calls + 1
      /\ bidders' = [bidders EXCEPT ![0] = b2]
      /\ raised' = "none"
      /\ lastCall' = [ op |-> "service_request", sr_number |-> sr_number,
                       service_type |-> service_type,
                       pre_available |-> b.available_bitrate,
                       in_service |-> ~fresh, given |-> -1,
                       after_fresh_request |-> FALSE,
                       request_pre_available |-> 0 ]
      /\ alloc' = IF fresh
                  THEN DictPut(alloc, sr_number, b.available_bitrate - b2.available_bitrate)
                  ELSE DictDel(alloc, sr_number)
      /\ UNCHANGED <<engineVars, probeVars>>

\* bidders[0].finish_servicing_request(sr_number)
CallFinishServicingRequest(sr_number) ==
  LET b == bidders[0]
      exc == release_raises(b, sr_number)
  IN  /\ calls < MaxCalls
      /\ calls' = calls + 1
      /\ raised' = exc
      /\ bidders' = IF exc = "none"
                    THEN [bidders EXCEPT ![0] = finish_servicing_request(b, sr_number)]
                    ELSE bidders
      /\ lastCall' = [ op |-> "finish_servicing_request", sr_number |-> sr_number,
                       service_type |-> 0,
                       pre_available |-> b.available_bitrate,
                       in_service |-> sr_number \in DOMAIN b.dedicated_bitrates,
                       given |-> IF sr_number \in DOMAIN alloc THEN alloc[sr_number] ELSE -1,
                       after_fresh_request |->
                          /\ lastCall.op = "service_request"
                          /\ lastCall.sr_number = sr_number
                          /\ ~lastCall.in_service,
                       request_pre_available |-> lastCall.pre_available ]
      /\ alloc' = DictDel(alloc, sr_number)
      /\ UNCHANGED <<engineVars, probeVars>>

NextBidder ==
  \/ \E r \in RequestIds, st \in ServiceTypes : CallServiceRequest(r, st)
  \/ \E r \in RequestIds : CallFinishServicingRequest(r)

SpecBidder == InitBidder /\ [][NextBidder]_vars

-----------------------------------------------------------------------------
(* The reputation rating update mechanisms applied on their own, as        *)
(* BidderHelperTests does: to any window size, rating and success report   *)
(* list.                                                                   *)

WindowSizes == 1..MaxWindowSize

\* ratings a mechanism is applied to: 0, 0.005, 0.01, 0.5, 0.995 and 1
Reputations ==
  { 0, RepScale \div 200, RepScale \div 100, RepScale \div 2,
    RepScale - RepScale \div 200, RepScale }

\* commitments (in percent) a mechanism is applied with: 0.2, 0.5, 0.8 (the
\* one of the tests) and 0.99
Commitments == {20, 50, 80, 99}

\* the parameter a mechanism is bound to: a window size or a commitment
BoundParams ==
  { [window_size |-> n, commitment |-> 0] : n \in WindowSizes }
    \cup { [window_size |-> 0, commitment |-> c] : c \in Commitments }

\* the 0/1 success report lists of at most MaxReports entries
SuccessLists == UNION { [1..k -> {0, 1}] : k \in 0..MaxReports }

InitReputation ==
  /\ \E bp \in BoundParams, r \in Reputations, s \in SuccessLists :
       probe = [ fn |-> "none", window_size |-> bp.window_size,
                 commitment |-> bp.commitment,
                 reputation |-> r, success_list |-> s, result |-> 0 - 1 ]
  /\ bidders = [i \in {0, 1} |->
                  NewBidder(i, 0, (WEB_BROWSING :> RepScale \div 2), RepScale \div 2,
                            [method |-> "lebodic", window_size |-> 2, commitment |-> 0])]
  /\ raised = "none"
  /\ calls = 0
  /\ lastCall = NoCall
  /\ alloc = EmptyDict
  /\ EngineIdle

\* helper.lebodics_reputation_update(window_size, reputation, success_list)
ApplyLebodic ==
  /\ probe.fn = "none"
  /\ probe.window_size \in WindowSizes
  /\ probe' = [probe EXCEPT
                 !.fn = "lebodic",
                 !.result = lebodics_reputation_update(probe.window_size, probe.reputation,
                                                       probe.success_list)]
  /\ UNCHANGED <<bidderVars, engineVars>>

\* helper.mcdiarmids_reputation_update(commitment, reputation, success_list),
\* the list holding at least the report of the request just serviced
ApplyMcdiarmid ==
  /\ probe.fn = "none"
  /\ probe.commitment \in Commitments
  /\ probe.success_list # <<>>
  /\ probe' = [probe EXCEPT
                 !.fn = "mcdiarmid",
                 !.result = mcdiarmids_reputation_update(probe.commitment, probe.reputation,
                                                         probe.success_list)]
  /\ UNCHANGED <<bidderVars, engineVars>>

NextReputation ==
  \/ ApplyLebodic
  \/ ApplyMcdiarmid

SpecReputation == InitReputation /\ [][NextReputation]_vars

-----------------------------------------------------------------------------
(* Myopic bidding applied on its own, as BidderHelperTests does: to any    *)
(* price weight, cost and pair of ratings.                                 *)

\* price weights (in percent) the bid is computed for: 0, 0.01, 0.5 and 1
BidPriceWeights == {0, 1, 50, 100}

\* costs the bid is computed for: 0, 0.25, 0.5 and 1
BidCosts == {0, RepScale \div 4, RepScale \div 2, RepScale}

\* ratings of the bidder and of its competitor: 0, 0.25, 0.5 and 1
BidReputations == {0, RepScale \div 4, RepScale \div 2, RepScale}

InitBidding ==
  /\ \E w \in BidPriceWeights, c \in BidCosts, r \in BidReputations,
        e \in BidReputations, sample \in SampleIdx :
       probe = [ fn |-> "none", price_weight |-> w, cost |-> c, reputation |-> r,
                 enemy_reputation |-> e, sample |-> sample, result |-> 0 - 1 ]
  /\ bidders = [i \in {0, 1} |->
                  NewBidder(i, 0, (WEB_BROWSING :> RepScale \div 2), RepScale \div 2,
                            [method |-> "lebodic", window_size |-> 2, commitment |-> 0])]
  /\ raised = "none"
  /\ calls = 0
  /\ lastCall = NoCall
  /\ alloc = EmptyDict
  /\ EngineIdle

\* helper.myopic_bidding(price_weight, cost, reputation, enemy_reputation)
ApplyMyopic ==
  /\ probe.fn = "none"
  /\ probe' = [probe EXCEPT
                 !.fn = "myopic",
                 !.result = myopic_bidding(probe.price_weight, probe.cost, probe.reputation,
                                           probe.enemy_reputation, probe.sample)]
  /\ UNCHANGED <<bidderVars, engineVars>>

NextBidding == ApplyMyopic

SpecBidding == InitBidding /\ [][NextBidding]_vars

-----------------------------------------------------------------------------
(* _select_winner called on its own, as test_select_winner does: on two    *)
(* myopic bidders with costs for web browsing and with ample capacity, for  *)
(* any of several price weights.                                           *)

\* price weights (in percent) of the calls: 0, 0.25, 0.5, 0.75 and 1
WinnerPriceWeights == {0, 25, 50, 75, 100}

\* costs the bidders are created with: 0, 0.25 and 0.75
WinnerCosts == {0, RepScale \div 4, (3 * RepScale) \div 4}

\* ratings the two bidders are created with: 0.25 and 0.75, either way round
WinnerReputations ==
  { <<RepScale \div 4, (3 * RepScale) \div 4>>,
    <<(3 * RepScale) \div 4, RepScale \div 4>> }

\* Bidder(10000, ...)
AmpleBitrate == 10000

NoWinner == [ fn |-> "none", price_weight |-> 0, compound |-> <<0, 0>>, winner |-> 0 - 1 ]

InitWinner ==
  /\ \E c \in WinnerCosts \X WinnerCosts, r \in WinnerReputations :
       bidders = [i \in {0, 1} |->
                    NewBidder(i, AmpleBitrate, (WEB_BROWSING :> c[i + 1]), r[i + 1],
                              [method |-> "lebodic", window_size |-> 5, commitment |-> 0])]
  /\ probe = NoWinner
  /\ raised = "none"
  /\ calls = 0
  /\ lastCall = NoCall
  /\ alloc = EmptyDict
  /\ EngineIdle

\* the bids the two bidders return in _select_winner, the index searched for
searched_bids(bs, service_type, price_weight) ==
  (0 :> myopic_bidding_searched(price_weight, bs[0].costs[service_type],
                                bs[0].reputation, bs[1].reputation))
  @@ (1 :> myopic_bidding_searched(price_weight, bs[1].costs[service_type],
                                   bs[1].reputation, bs[0].reputation))

\* dmeh._select_winner(WEB_BROWSING, price_weight); `coin` is the value
\* prng.randint(2) returns if it is called
SelectWinner(price_weight) ==
  /\ probe.fn = "none"
  /\ \E bids \in {searched_bids(bidders, WEB_BROWSING, price_weight)} :
       LET bs1 == [i \in {0, 1} |-> submit_bid(bidders[i], WEB_BROWSING, 0)]
           compound == << compound_bid(price_weight, bids[0], bidders[0].reputation),
                          compound_bid(price_weight, bids[1], bidders[1].reputation) >>
       IN  /\ bidders' = bs1
           /\ \E coin \in (IF compound[1] = compound[2] THEN {0, 1} ELSE {0}) :
                probe' = [ fn |-> "select_winner", price_weight |-> price_weight,
                           compound |-> compound,
                           winner |-> select_winner(bs1, price_weight, bids, coin) ]
  /\ UNCHANGED <<raised, calls, lastCall, alloc, engineVars>>

NextWinner == \E w \in WinnerPriceWeights : SelectWinner(w)

SpecWinner == InitWinner /\ [][NextWinner]_vars

-----------------------------------------------------------------------------
(* Method resolution and Bidder construction on their own, as              *)
(* BidderHelperTests and BidderTests do: helper.method(params) for any     *)
(* params dict, Bidder(...) with any of its arguments given or left out.   *)

\* the params dicts helper.method is called with
MethodParams ==
  { [something |-> 0], [window_size |-> 5],
    [method |-> "unknown"], [method |-> "unknown", window_size |-> 5],
    [method |-> "lebodic"], [method |-> "lebodic", commitment |-> 80],
    [method |-> "mcdiarmid"], [method |-> "mcdiarmid", window_size |-> 5],
    [method |-> "myopic"], [method |-> "myopic", window_size |-> 5],
    [method |-> "lebodic", window_size |-> 5],
    [method |-> "lebodic", window_size |-> 2, commitment |-> 80],
    [method |-> "mcdiarmid", commitment |-> 80],
    [method |-> "mcdiarmid", commitment |-> 50, window_size |-> 5] }

\* the arguments Bidder(...) is called with
ConstructorArgs ==
  [ total_bitrate     : {None, Given(0), Given(1000)},
    costs             : {None, Given((WEB_BROWSING :> RepScale \div 2))},
    bidding_params    : {None, Given([method |-> "myopic"]), Given([method |-> "unknown"])},
    reputation        : {None, Given(0), Given(RepScale \div 2)},
    reputation_params : {None, Given([method |-> "lebodic", window_size |-> 5]),
                         Given([method |-> "mcdiarmid", commitment |-> 80]),
                         Given([method |-> "lebodic"])} ]

NoArgs == [a \in ArgNames |-> None]

NoMethod == [func |-> "", args |-> <<>>]

InitHelper ==
  /\ probe = [ fn |-> "none", params |-> [something |-> 0], args |-> NoArgs,
               raised |-> "none", result |-> NoMethod, bidder |-> None,
               id_counter |-> 0, ids |-> <<>>, constructions |-> 0 ]
  /\ bidders = [i \in {0, 1} |->
                  NewBidder(i, 0, (WEB_BROWSING :> RepScale \div 2), RepScale \div 2,
                            [method |-> "lebodic", window_size |-> 2, commitment |-> 0])]
  /\ raised = "none"
  /\ calls = 0
  /\ lastCall = NoCall
  /\ alloc = EmptyDict
  /\ EngineIdle

\* helper.method(params)
CallMethod(params) ==
  LET exc == method_raises(params)
  IN  /\ probe.fn = "none"
      /\ probe' = [probe EXCEPT
                     !.fn = "method",
                     !.params = params,
                     !.raised = exc,
                     !.result = IF exc = "none" THEN method(params) ELSE NoMethod]
      /\ UNCHANGED <<bidderVars, engineVars>>

\* Bidder(total_bitrate=..., costs=..., bidding_params=..., reputation=...,
\* reputation_params=...)
Construct(args) ==
  LET exc == bidder_init_raises(args)
  IN  /\ probe.fn \in {"none", "Bidder"}
      /\ probe.constructions < MaxConstructions
      /\ probe' = [probe EXCEPT
                     !.fn = "Bidder",
                     !.args = args,
                     !.raised = exc,
                     !.bidder = IF exc = "none"
                                THEN Given(bidder_init(args, probe.id_counter))
                                ELSE None,
                     !.id_counter = next_id_counter(args, probe.id_counter),
                     !.ids = IF exc = "none" THEN Append(@, probe.id_counter) ELSE @,
                     !.constructions = @ + 1]
      /\ UNCHANGED <<bidderVars, engineVars>>

NextHelper ==
  \/ \E params \in MethodParams : CallMethod(params)
  \/ \E args \in ConstructorArgs : Construct(args)

SpecHelper == InitHelper /\ [][NextHelper]_vars

-----------------------------------------------------------------------------
(* The Bidder of des/dm.py (the earlier, monolithic simulator) next to the *)
(* Bidder of simulator/modules/dm.py bound to lebodic: both receive the    *)
(* same calls (SpecRefine).  bidders[0] is the modular Bidder, probe.legacy *)
(* the legacy one.                                                         *)

\* Bidder.reputation_window_size values the legacy Bidder runs with (5 is
\* the value of des/dm.py)
LegacyWindowSizes == {1, 2, 5}

\* total bit-rates both Bidders are created with
RefineBitrates == {300, 1000}

\* request ids the driver uses
RefineRequestIds == {1, 2}

\* costs both Bidders are created with: 0.5 for either service
RefineCosts == (WEB_BROWSING :> RepScale \div 2) @@ (EMAIL :> RepScale \div 2)

\* des/dm.py Bidder.__init__: _current_profit is not among the attributes
\* it sets (None: the attribute does not exist)
legacy_init(total_bitrate, costs, reputation) ==
  [ costs              |-> costs,
    reputation         |-> reputation,
    reputation_history |-> <<>>,
    profit_history     |-> EmptyDict,
    total_bitrate      |-> total_bitrate,
    available_bitrate  |-> total_bitrate,
    success_list       |-> <<>>,
    dedicated_bitrates |-> EmptyDict,
    current_profit     |-> None ]

\* des/dm.py Bidder.submit_bid for the price weights 0 and 1 and a service
\* type whose cost is set: the state it leaves behind
legacy_submit_bid(b, service_type, price_weight) ==
  LET bid == IF price_weight = 0 THEN Infinity ELSE (RepScale + b.costs[service_type]) \div 2
  IN  [b EXCEPT !.reputation_history = Append(@, b.reputation),
                !.current_profit = IF price_weight = 0 THEN Given(Infinity)
                                   ELSE Given(bid - b.costs[service_type])]

\* des/dm.py Bidder.service_request: the exception it ends with; its first
\* statement reads self._current_profit
legacy_service_request_raises(b) ==
  IF IsNone(b.current_profit) THEN "AttributeError" ELSE "none"

\* des/dm.py Bidder.service_request, when it does not raise
legacy_service_request(window_size, b, sr_number, service_type) ==
  LET sr_bitrate == BITRATES(service_type)
      b1 == [b EXCEPT !.profit_history = DictPut(@, sr_number, b.current_profit[1])]
      b2 == IF b1.available_bitrate >= sr_bitrate
            THEN [b1 EXCEPT !.dedicated_bitrates = DictPut(@, sr_number, sr_bitrate),
                            !.available_bitrate = @ - sr_bitrate,
                            !.success_list = Append(@, 1)]
            ELSE [b1 EXCEPT !.dedicated_bitrates = DictPut(@, sr_number, b1.available_bitrate),
                            !.available_bitrate = 0,
                            !.success_list = Append(@, 0)]
  IN  IF Len(b2.success_list) = window_size
      THEN [b2 EXCEPT !.reputation =
                        RepScale - (SumSeq(b2.success_list) * RepScale) \div Len(b2.success_list),
                      !.success_list = Tail(@)]
      ELSE b2

\* des/dm.py Bidder.finish_servicing_request: the exception it ends with
legacy_finish_servicing_request_raises(b, sr_number) ==
  IF sr_number \in DOMAIN b.dedicated_bitrates THEN "none" ELSE "KeyError"

\* des/dm.py Bidder.finish_servicing_request, when it does not raise
legacy_finish_servicing_request(b, sr_number) ==
  LET sr_bitrate == b.dedicated_bitrates[sr_number]
  IN  [b EXCEPT !.dedicated_bitrates = DictDel(@, sr_number),
                !.available_bitrate = @ + sr_bitrate]

\* no success report yet
NoIndicator == 0 - 1

InitRefine ==
  /\ \E t \in RefineBitrates, n \in LegacyWindowSizes :
       /\ bidders = [i \in {0, 1} |->
                       NewBidder(i, t, RefineCosts, RepScale \div 2,
                                 [method |-> "lebodic", window_size |-> n, commitment |-> 0])]
       /\ probe = [ fn |-> "none", window_size |-> n,
                    legacy |-> legacy_init(t, RefineCosts, RepScale \div 2),
                    legacy_raised |-> "none", legacy_indicator |-> NoIndicator,
                    indicator |-> NoIndicator, attribute_errors |-> 0 ]
  /\ raised = "none"
  /\ calls = 0
  /\ lastCall = NoCall
  /\ alloc = EmptyDict
  /\ EngineIdle

\* submit_bid(service_type, price_weight, enemy_reputation) on both
\* Bidders, before the legacy Bidder has a profit to book
RefineSubmitBid(service_type, price_weight) ==
  /\ IsNone(probe.legacy.current_profit)
  /\ probe' = [probe EXCEPT
                 !.fn = "submit_bid",
                 !.legacy = legacy_submit_bid(@, service_type, price_weight),
                 !.legacy_raised = "none"]
  /\ bidders' = [bidders EXCEPT ![0] = submit_bid(@, service_type, 0)]
  /\ raised' = "none"
  /\ UNCHANGED <<calls, lastCall, alloc, engineVars>>

\* service_request(sr_number, service_type) on both Bidders
RefineServiceRequest(sr_number, service_type) ==
  LET exc == legacy_service_request_raises(probe.legacy)
      l2  == IF exc = "none"
             THEN legacy_service_request(probe.window_size, probe.legacy, sr_number, service_type)
             ELSE probe.legacy
      b2  == service_request(bidders[0], sr_number, service_type)
  IN  /\ calls < MaxRefineCalls
      /\ calls' = calls + 1
      /\ probe' = [probe EXCEPT
                     !.fn = "service_request",
                     !.legacy = l2,
                     !.legacy_raised = exc,
                     !.legacy_indicator =
                        IF exc = "none"
                        THEN (IF probe.legacy.available_bitrate >= BITRATES(service_type)
                              THEN 1 ELSE 0)
                        ELSE NoIndicator,
                     !.indicator = b2.success_list[Len(b2.success_list)],
                     !.attribute_errors = IF exc = "none" THEN @ ELSE 1]
      /\ bidders' = [bidders EXCEPT ![0] = b2]
      /\ raised' = "none"
      /\ UNCHANGED <<lastCall, alloc, engineVars>>

\* finish_servicing_request(sr_number) on both Bidders
RefineFinishServicingRequest(sr_number) ==
  LET lexc == legacy_finish_servicing_request_raises(probe.legacy, sr_number)
      exc  == release_raises(bidders[0], sr_number)
  IN  /\ calls < MaxRefineCalls
      /\ calls' = calls + 1
      /\ probe' = [probe EXCEPT
                     !.fn = "finish_servicing_request",
                     !.legacy = IF lexc = "none"
                                THEN legacy_finish_servicing_request(@, sr_number)
                                ELSE @,
                     !.legacy_raised = lexc]
      /\ bidders' = IF exc = "none"
                    THEN [bidders EXCEPT ![0] = finish_servicing_request(@, sr_number)]
                    ELSE bidders
      /\ raised' = exc
      /\ UNCHANGED <<lastCall, alloc, engineVars>>

NextRefine ==
  \/ \E st \in ServiceTypes, w \in {0, 100} : RefineSubmitBid(st, w)
  \/ \E r \in RefineRequestIds, st \in ServiceTypes : RefineServiceRequest(r, st)
  \/ \E r \in RefineRequestIds : RefineFinishServicingRequest(r)

SpecRefine == InitRefine /\ [][NextRefine]_vars

-----------------------------------------------------------------------------
(* The batch runner run.py: the simulations of a run in batches of child   *)
(* processes (SpecBatch).  probe is the state of the script: its variables, *)
(* the child processes, and where it stands in the loop.                   *)

\* values of --initial_seed
InitialSeeds == {0, 3}

\* sub.Popen("python main.py {} --seed={} --id={} ..."): the child process
\* of repetition n; exited is what poll() != None gives
Popen(n, init_seed) == [seed |-> n + init_seed, id |-> n, exited |-> FALSE]

\* repetitions % batch_size
remainder(repetitions, batch_size) == repetitions % batch_size

\* num_proc = batch_size if batch_size <= repetitions else remainder
first_batch(repetitions, batch_size) ==
  IF batch_size <= repetitions THEN batch_size ELSE remainder(repetitions, batch_size)

\* (mutant) every batch is a full batch
next_batch_full(num_proc, repetitions, batch_size) == batch_size

\* temp_num = batch_size if num_proc + batch_size <= repetitions else remainder
next_batch(num_proc, repetitions, batch_size) ==
  IF num_proc + batch_size <= repetitions THEN batch_size
  ELSE remainder(repetitions, batch_size)

\* [Popen(n) for n in range(from, to)] appended to procs
launch(procs, from, to, init_seed) ==
  procs \o [k \in 1..(to - from) |-> Popen(from + k - 1, init_seed)]

\* all(procs_poll)
all_exited(procs) == \A k \in 1..Len(procs) : procs[k].exited

\* procs_poll.index(False), as an index from 1
first_running(procs) ==
  CHOOSE k \in 1..Len(procs) :
    /\ ~procs[k].exited
    /\ \A j \in 1..(k - 1) : procs[j].exited

InitBatch ==
  /\ \E reps \in 0..MaxRepetitions, size \in 2..MaxBatchSize, seed \in InitialSeeds :
       probe = [ fn |-> "run", repetitions |-> reps, batch_size |-> size,
                 init_seed |-> seed, num_proc |-> 0, procs |-> <<>>,
                 at |-> "start", waiting_for |-> 0 ]
  /\ bidders = [i \in {0, 1} |->
                  NewBidder(i, 0, (WEB_BROWSING :> RepScale \div 2), RepScale \div 2,
                            [method |-> "lebodic", window_size |-> 2, commitment |-> 0])]
  /\ raised = "none"
  /\ calls = 0
  /\ lastCall = NoCall
  /\ alloc = EmptyDict
  /\ EngineIdle

\* lines 42-46: the first batch is started
BatchStart ==
  /\ probe.at = "start"
  /\ LET n == first_batch(probe.repetitions, probe.batch_size)
     IN  probe' = [probe EXCEPT !.num_proc = n,
                                !.procs = launch(<<>>, 0, n, probe.init_seed),
                                !.at = "loop"]
  /\ UNCHANGED <<bidderVars, engineVars>>

\* lines 48-57: one pass of the while loop up to wait(), the launch of the
\* next batch, or break
BatchPoll ==
  /\ probe.at = "loop"
  /\ IF ~all_exited(probe.procs)
     THEN probe' = [probe EXCEPT !.at = "wait",
                                 !.waiting_for = first_running(probe.procs)]
     ELSE IF probe.num_proc < probe.repetitions
     THEN LET temp_num == next_batch(probe.num_proc, probe.repetitions, probe.batch_size)
          IN  probe' = [probe EXCEPT
                          !.procs = launch(@, probe.num_proc, probe.num_proc + temp_num,
                                           probe.init_seed),
                          !.num_proc = @ + temp_num]
     ELSE probe' = [probe EXCEPT !.at = "done"]
  /\ UNCHANGED <<bidderVars, engineVars>>

\* line 50: wait() returns once the child process has exited
BatchWait ==
  /\ probe.at = "wait"
  /\ probe.procs[probe.waiting_for].exited
  /\ probe' = [probe EXCEPT !.at = "loop", !.waiting_for = 0]
  /\ UNCHANGED <<bidderVars, engineVars>>

\* a child process exits
ProcExit(k) ==
  /\ probe.at # "start"
  /\ k \in 1..Len(probe.procs)
  /\ ~probe.procs[k].exited
  /\ probe' = [probe EXCEPT !.procs[k].exited = TRUE]
  /\ UNCHANGED <<bidderVars, engineVars>>

\* a step of the script
BatchStep == BatchStart \/ BatchPoll \/ BatchWait

NextBatch ==
  \/ BatchStep
  \/ \E k \in 1..MaxRepetitions : ProcExit(k)

SpecBatch == InitBatch /\ [][NextBatch]_vars

\* the script keeps running while it can: it is not suspended for ever
FairBatch == SpecBatch /\ WF_vars(BatchStep)

-----------------------------------------------------------------------------
(* Claims about the Bidder's capacity bookkeeping *)

Bidder0 == bidders[0]

\* C1: after every service_request / finish_servicing_request call on one
\* Bidder, available capacity plus the sum of all dedicated capacities
\* equals total capacity (request ids re-used while in service included).
C1_CapacityConserved ==
  Bidder0.available_bitrate + SumValues(Bidder0.dedicated_bitrates)
    = Bidder0.total_bitrate

\* C2: in every state reachable by service_request and
\* finish_servicing_request calls, 0 <= available capacity <= total capacity.
C2_AvailableInRange ==
  /\ 0 <= Bidder0.available_bitrate
  /\ Bidder0.available_bitrate <= Bidder0.total_bitrate

\* C2 witness: a partial allocation has driven the available capacity to 0
\* and a later release has given capacity back.
C2_Witness ==
  /\ lastCall.op = "finish_servicing_request"
  /\ raised = "none"
  /\ lastCall.pre_available = 0
  /\ Bidder0.available_bitrate > 0
  /\ Bidder0.success_list # <<>>
  /\ Bidder0.success_list[Len(Bidder0.success_list)] = 0

\* C3: releasing a request id that was allocated while not in service (and
\* not requested again since) returns exactly the capacity that was taken
\* for it, whatever was allocated and released for other ids in between;
\* and a release right after the allocation restores the available capacity
\* to its value before the allocation.
C3_RoundTrip ==
  (lastCall.op = "finish_servicing_request" /\ lastCall.given # -1) =>
     /\ raised = "none"
     /\ Bidder0.available_bitrate = lastCall.pre_available + lastCall.given
     /\ lastCall.after_fresh_request =>
          Bidder0.available_bitrate = lastCall.request_pre_available

\* C3 witness: an immediate release after a partial allocation, and the
\* capacity is back.
C3_Witness ==
  /\ lastCall.op = "finish_servicing_request"
  /\ lastCall.after_fresh_request
  /\ lastCall.given > 0
  /\ lastCall.given < WebBitrate
  /\ lastCall.pre_available = 0
  /\ Bidder0.available_bitrate = lastCall.request_pre_available

\* C4: finish_servicing_request(request_id) fails with UnknownRequestError
\* whenever request_id has no dedication record on the Bidder.
C4_UnknownRequestError ==
  (lastCall.op = "finish_servicing_request" /\ ~lastCall.in_service) =>
     raised = "UnknownRequestError"

-----------------------------------------------------------------------------
(* A simulation run: the engine's control loop with the DMEventHandler     *)
(* attached (main.py), or with listeners only (tests/sim.py).              *)

\* reputations the two bidders are created with (main.py, tests/dm.py)
InitialReputations == { <<0, 0>>, <<RepScale \div 4, (3 * RepScale) \div 4>> }

\* cost maps the two bidders are created with: the first bidder has no
\* cost for EMAIL yet
InitialCosts ==
  << (WEB_BROWSING :> RepScale \div 2),
     (WEB_BROWSING :> RepScale \div 2) @@ (EMAIL :> RepScale \div 2) >>

\* total bit-rates the two bidders are created with
RunBitrates == {600}

\* times of the events scheduled from outside the handler
ExtTimes == (0 - 1)..MaxTime

Init ==
  /\ \E reps \in InitialReputations, t \in RunBitrates :
       bidders = [i \in {0, 1} |->
                    NewBidder(i, t, InitialCosts[i + 1], reps[i + 1],
                              [method |-> "lebodic", window_size |-> 2, commitment |-> 0])]
  /\ raised = "none"
  /\ calls = 0
  /\ lastCall = NoCall
  /\ alloc = EmptyDict
  /\ probe = NoProbe
  /\ clock = StartTime
  /\ queue = <<>>
  /\ pc = "idle"
  /\ handler \in {"dm", "none"}
  /\ sr_count = 0
  /\ prices = <<>>
  /\ auctions = <<>>
  /\ dispatched = <<>>
  /\ callbacks = <<>>
  /\ leftover = <<>>
  /\ schedCalls = <<>>
  /\ saved = NoResults

\* schedule(Event("Dummy", t)) called from outside the run (tests/sim.py,
\* listeners only): before start(), or after start() has returned
ExtSchedule(t) ==
  LET e == Event(DUMMY_EVENT, t, NoBundle)
  IN  /\ handler = "none"
      /\ \/ pc = "idle" /\ Len(queue) < MaxExternal
         \/ pc = "stopped" /\ Len(queue) <= Len(leftover)
      /\ queue' = schedule(queue, e, clock)
      /\ raised' = schedule_raises(e, clock)
      /\ schedCalls' = <<SchedCall(queue, e, clock)>>
      /\ UNCHANGED <<bidders, calls, lastCall, alloc, probe, auctions, clock, pc, handler, sr_count,
                     prices, dispatched, callbacks, leftover, saved>>

\* stop(at_time) called before start(): once with the DMEventHandler
\* (main.py), among the other events with listeners only (tests/sim.py)
ExtStop(at_time) ==
  LET e == stop_event(clock, at_time)
  IN  /\ pc = "idle"
      /\ IF handler = "dm" THEN queue = <<>> ELSE Len(queue) < MaxExternal
      /\ queue' = schedule(queue, e, clock)
      /\ raised' = schedule_raises(e, clock)
      /\ schedCalls' = <<SchedCall(queue, e, clock)>>
      /\ UNCHANGED <<bidders, calls, lastCall, alloc, probe, auctions, clock, pc, handler, sr_count,
                     prices, dispatched, callbacks, leftover, saved>>

\* start() with listeners only: on_start is notified, the loop is entered
StartPlain ==
  /\ pc = "idle" /\ handler = "none"
  /\ callbacks' = notify_start(callbacks)
  /\ pc' = "running"
  /\ raised' = "none"
  /\ schedCalls' = <<>>
  /\ UNCHANGED <<bidders, calls, lastCall, alloc, probe, auctions, clock, queue, handler, sr_count,
                 prices, dispatched, leftover, saved>>

\* (mutant) on_start schedules nothing
StartDM_idle(price_weight, service_type, delta_time) ==
  /\ pc = "idle" /\ handler = "dm"
  /\ callbacks' = notify_start(callbacks)
  /\ schedCalls' = <<>>
  /\ raised' = "none"
  /\ pc' = "running"
  /\ UNCHANGED <<bidders, calls, lastCall, alloc, probe, auctions, clock, queue,
                 handler, sr_count, prices, dispatched, leftover, saved>>

\* (mutant) on_start schedules the first arrival event twice
StartDM_two_arrivals(price_weight, service_type, delta_time) ==
  LET e == generate_sr_event(clock, price_weight, service_type, delta_time)
      exc == schedule_raises(e, clock)
  IN  /\ pc = "idle" /\ handler = "dm"
      /\ callbacks' = notify_start(callbacks)
      /\ queue' = schedule(schedule(queue, e, clock), e, clock)
      /\ schedCalls' = <<SchedCall(queue, e, clock)>>
      /\ raised' = exc
      /\ pc' = IF exc = "none" THEN "running" ELSE "aborted"
      /\ UNCHANGED <<bidders, calls, lastCall, alloc, probe, auctions, clock, handler, sr_count,
                     prices, dispatched, leftover, saved>>

\* start() with the DMEventHandler: on_start is DMEventHandler.handle_start,
\* i.e. _schedule_sr_event(simulation_time)
StartDM(price_weight, service_type, delta_time) ==
  LET e == generate_sr_event(clock, price_weight, service_type, delta_time)
      exc == schedule_raises(e, clock)
  IN  /\ pc = "idle" /\ handler = "dm"
      /\ callbacks' = notify_start(callbacks)
      /\ queue' = schedule(queue, e, clock)
      /\ schedCalls' = <<SchedCall(queue, e, clock)>>
      /\ raised' = exc
      /\ pc' = IF exc = "none" THEN "running" ELSE "aborted"
      /\ UNCHANGED <<bidders, calls, lastCall, alloc, probe, auctions, clock, handler, sr_count,
                     prices, dispatched, leftover, saved>>

\* the loop finds the queue empty: on_stop, start() returns
LoopEmpty ==
  /\ pc = "running" /\ queue = <<>>
  /\ callbacks' = notify_stop(callbacks)
  /\ saved' = on_stop(handler, bidders, sr_count, prices)
  /\ leftover' = queue
  /\ pc' = "stopped"
  /\ raised' = "none"
  /\ schedCalls' = <<>>
  /\ UNCHANGED <<bidders, calls, lastCall, alloc, probe, auctions, clock, queue, handler, sr_count,
                 prices, dispatched>>

\* the loop pops the Stop event: on_stop, start() returns
DispatchStop ==
  /\ pc = "running" /\ queue # <<>> /\ is_terminal(Head(queue))
  /\ clock' = advance_clock(clock, Head(queue))
  /\ queue' = Tail(queue)
  /\ dispatched' = Append(dispatched, Head(queue))
  /\ callbacks' = notify_stop(callbacks)
  /\ saved' = on_stop(handler, bidders, sr_count, prices)
  /\ leftover' = Tail(queue)
  /\ pc' = "stopped"
  /\ raised' = "none"
  /\ schedCalls' = <<>>
  /\ UNCHANGED <<bidders, calls, lastCall, alloc, probe, auctions, handler, sr_count, prices>>

\* the loop pops an event that is neither terminal nor an arrival nor a
\* termination (the "Dummy" event of tests/sim.py): on_event is notified,
\* nothing else changes (the last branch of DMEventHandler.handle_event
\* does nothing either)
DispatchOther ==
  /\ pc = "running" /\ queue # <<>> /\ ~is_terminal(Head(queue))
  /\ Head(queue).identifier \notin {SR_EVENT, ST_EVENT}
  /\ clock' = advance_clock(clock, Head(queue))
  /\ queue' = Tail(queue)
  /\ dispatched' = Append(dispatched, Head(queue))
  /\ callbacks' = notify_event(callbacks, Head(queue))
  /\ raised' = "none"
  /\ schedCalls' = <<>>
  /\ UNCHANGED <<bidders, calls, lastCall, alloc, probe, auctions, pc, handler, sr_count, prices,
                 leftover, saved>>

\* the loop pops a termination event: DMEventHandler.handle_event calls
\* bidder.finish_servicing_request(sr_number)
DispatchST ==
  LET e == Head(queue)
      i == e.bundle[1]
      sr_number == e.bundle[2]
      exc == release_raises(bidders[i], sr_number)
  IN  /\ pc = "running" /\ queue # <<>> /\ ~is_terminal(Head(queue))
      /\ e.identifier = ST_EVENT
      /\ clock' = advance_clock(clock, e)
      /\ queue' = Tail(queue)
      /\ dispatched' = Append(dispatched, e)
      /\ callbacks' = notify_event(callbacks, e)
      /\ bidders' = IF exc = "none"
                    THEN [bidders EXCEPT ![i] = finish_servicing_request(@, sr_number)]
                    ELSE bidders
      /\ raised' = exc
      /\ pc' = IF exc = "none" THEN pc ELSE "aborted"
      /\ schedCalls' = <<>>
      /\ UNCHANGED <<calls, lastCall, alloc, probe, auctions, handler, sr_count, prices, leftover,
                     saved>>

\* the bundle of the event at the head of the queue
HeadBundle == IF queue = <<>> THEN NoBundle ELSE Head(queue).bundle

\* the cost draws an auction makes: one per bidder that has no cost for the
\* service type yet
DrawsFor(service_type) ==
  { d \in [{0, 1} -> CostDraws \cup {0}] :
      \A i \in {0, 1} : (d[i] = 0) <=> (service_type \in DOMAIN bidders[i].costs) }

SamplesFor(price_weight) ==
  { s \in [{0, 1} -> SampleIdx] :
      \A i \in {0, 1} :
        ~uses_sample(price_weight, bidders[i].reputation, bidders[1 - i].reputation)
           => s[i] = 0 }

\* the loop pops an arrival event: DMEventHandler.handle_event runs the
\* auction, schedules the termination event and the next arrival event
DispatchSR(draws, samples, coin, price_weight, service_type, delta_time) ==
  /\ pc = "running" /\ queue # <<>> /\ ~is_terminal(Head(queue))
  /\ Head(queue).identifier = SR_EVENT
  /\ sr_count < MaxAuctions
  /\ coin = 1 => is_tie(bidders, Head(queue).bundle[1],
                        auction_bids(bidders, Head(queue), draws, samples))
  /\ \E e \in {Head(queue)}, now \in {advance_clock(clock, Head(queue))} :
     \E r \in {run_auction(bidders, sr_count, prices, e, draws, samples, coin)} :
     \E st_event \in {generate_st_event(e.time, <<r.winner, r.sr_count>>)},
        sr_event \in {generate_sr_event(e.time, price_weight, service_type, delta_time)} :
     \E q1 \in {schedule(Tail(queue), st_event, now)} :
       LET st_exc == schedule_raises(st_event, now)
           sr_exc == schedule_raises(sr_event, now)
           q2 == schedule(q1, sr_event, now)
       IN  /\ clock' = now
           /\ dispatched' = Append(dispatched, e)
           /\ callbacks' = notify_event(callbacks, e)
           /\ bidders' = r.bidders
           /\ sr_count' = r.sr_count
           /\ prices' = r.prices
           /\ auctions' = Append(auctions, AuctionRecord(bidders, e, draws, samples, coin, r))
           /\ IF st_exc # "none"
              THEN /\ queue' = q1
                   /\ schedCalls' = <<SchedCall(Tail(queue), st_event, now)>>
                   /\ raised' = st_exc
                   /\ pc' = "aborted"
              ELSE /\ queue' = q2
                   /\ schedCalls' = <<SchedCall(Tail(queue), st_event, now),
                                      SchedCall(q1, sr_event, now)>>
                   /\ raised' = sr_exc
                   /\ pc' = IF sr_exc = "none" THEN pc ELSE "aborted"
  /\ UNCHANGED <<calls, lastCall, alloc, probe, handler, leftover, saved>>

Next ==
  \/ \E t \in ExtTimes : ExtSchedule(t)
  \/ \E at \in 0..MaxTime : ExtStop(at)
  \/ StartPlain
  \/ \E a \in ArrivalDraws : StartDM(a[1], a[2], a[3])
  \/ LoopEmpty
  \/ DispatchStop
  \/ DispatchOther
  \/ DispatchST
  \/ \E a \in ArrivalDraws, coin \in {0, 1} :
       \E draws \in DrawsFor(HeadBundle[2]), samples \in SamplesFor(HeadBundle[1]) :
            DispatchSR(draws, samples, coin, a[1], a[2], a[3])

Spec == Init /\ [][Next]_vars

\* the control loop runs until start() returns
FairSpec == Spec /\ WF_vars(LoopEmpty)

\* a step of the control loop: it ends, or pops and dispatches an event
LoopStep ==
  \/ LoopEmpty
  \/ DispatchStop
  \/ DispatchOther
  \/ DispatchST
  \/ \E a \in ArrivalDraws, coin \in {0, 1} :
       \E draws \in DrawsFor(HeadBundle[2]), samples \in SamplesFor(HeadBundle[1]) :
            DispatchSR(draws, samples, coin, a[1], a[2], a[3])

\* the control loop keeps taking steps while it can
FairRun == Spec /\ WF_vars(LoopStep)

-----------------------------------------------------------------------------
(* Claims about the control loop *)

\* the events passed to on_event, in order
Handled ==
  LET evs == SelectSeq(callbacks, LAMBDA c : c.kind = "on_event")
  IN  [i \in 1..Len(evs) |-> evs[i].event]

\* the dispatched events that are not terminal, in order
NonTerminalDispatched == SelectSeq(dispatched, LAMBDA e : ~is_terminal(e))

StopDispatched == \E i \in 1..Len(dispatched) : dispatched[i].identifier = STOP_EVENT

NumberOf(kind) == Cardinality({i \in 1..Len(callbacks) : callbacks[i].kind = kind})

LastCallback == IF callbacks = <<>> THEN "" ELSE callbacks[Len(callbacks)].kind

\* C5: on_event is invoked exactly once for every dispatched non-terminal
\* event, in dispatch order, and the times of successive on_event
\* invocations are non-decreasing.
C5_OnEventOncePerEventInTimeOrder ==
  /\ Handled = NonTerminalDispatched
  /\ \A i \in 1..(Len(Handled) - 1) : Handled[i].time <= Handled[i + 1].time

\* C5 witness: a run with the DMEventHandler in which an arrival, a
\* termination and a later event have been handled at increasing times.
C5_Witness ==
  /\ handler = "dm"
  /\ Len(Handled) >= 3
  /\ \E i \in 1..Len(Handled) : Handled[i].identifier = ST_EVENT
  /\ Handled[1].time < Handled[Len(Handled)].time

\* C6: once the Stop event is dispatched the loop has ended and on_stop has
\* been invoked; the Stop event is the last event dispatched, it is not
\* passed to on_event, and the events that were queued at that moment stay
\* in the queue.
C6_StopEndsLoop ==
  StopDispatched =>
    /\ pc = "stopped"
    /\ NumberOf("on_stop") = 1
    /\ LastCallback = "on_stop"
    /\ dispatched[Len(dispatched)].identifier = STOP_EVENT
    /\ Len(Handled) = Len(dispatched) - 1
    /\ \A i \in 1..Len(Handled) : Handled[i].identifier # STOP_EVENT
    /\ \A i \in 1..Len(leftover) : \E j \in 1..Len(queue) : queue[j] = leftover[i]

\* C6 witness: the Stop event was dispatched while an arrival event and a
\* termination event were still queued.
C6_Witness ==
  /\ StopDispatched
  /\ pc = "stopped"
  /\ \E i \in 1..Len(leftover) : leftover[i].identifier = SR_EVENT
  /\ \E i \in 1..Len(leftover) : leftover[i].identifier = ST_EVENT

\* C7: schedule(event) fails with InvalidScheduleError whenever event.time
\* is smaller than the clock and otherwise inserts the event; the queue
\* never holds an event with time < clock.
C7_ScheduleRejectsPast ==
  /\ \A i \in 1..Len(schedCalls) :
       IF schedCalls[i].time < schedCalls[i].clock
       THEN schedCalls[i].raised = "InvalidScheduleError" /\ ~schedCalls[i].queued
       ELSE schedCalls[i].raised = "none" /\ schedCalls[i].queued
  /\ \A i \in 1..Len(queue) : queue[i].time >= clock

\* C7 witness: after events have been dispatched, a schedule() call for a
\* time between the start time and the clock has been rejected.
C7_Witness ==
  /\ raised = "InvalidScheduleError"
  /\ dispatched # <<>>
  /\ \E i \in 1..Len(schedCalls) :
       /\ schedCalls[i].raised = "InvalidScheduleError"
       /\ schedCalls[i].time >= StartTime
       /\ schedCalls[i].clock > schedCalls[i].time

\* C8: the clock never decreases, it is the time of the last dispatched
\* event (the start time before the first dispatch), and so, when start()
\* has returned, the time of the Stop event or of the last dispatched
\* event if the queue emptied first.
C8_ClockFollowsDispatch ==
  /\ clock = IF dispatched = <<>> THEN StartTime ELSE dispatched[Len(dispatched)].time
  /\ \A i \in 1..Len(dispatched) : StartTime <= dispatched[i].time
  /\ \A i \in 1..(Len(dispatched) - 1) : dispatched[i].time <= dispatched[i + 1].time
  /\ (pc = "stopped" /\ StopDispatched) =>
       /\ dispatched[Len(dispatched)].identifier = STOP_EVENT
       /\ clock = dispatched[Len(dispatched)].time

\* C8 witness: start() has returned because the queue emptied, after
\* events at different times were dispatched.
C8_Witness ==
  /\ pc = "stopped"
  /\ ~StopDispatched
  /\ Len(dispatched) >= 2
  /\ dispatched[1].time < dispatched[Len(dispatched)].time
  /\ clock = dispatched[Len(dispatched)].time

\* C9: on_start is invoked at most once and on_stop at most once, on_start
\* before any on_event and on_stop after every on_event.
C9_StartOnceStopOnce ==
  /\ NumberOf("on_start") <= 1
  /\ NumberOf("on_stop") <= 1
  /\ \A i \in 1..Len(callbacks) :
       callbacks[i].kind = "on_event" =>
         /\ \E j \in 1..(i - 1) : callbacks[j].kind = "on_start"
         /\ \A j \in 1..(i - 1) : callbacks[j].kind # "on_stop"
  /\ \A i \in 1..Len(callbacks) :
       callbacks[i].kind = "on_stop" => \E j \in 1..(i - 1) : callbacks[j].kind = "on_start"

\* C9 witness: a finished run with the DMEventHandler: on_start, some
\* on_event, on_stop.
C9_Witness ==
  /\ handler = "dm"
  /\ Len(callbacks) >= 4
  /\ callbacks[1].kind = "on_start"
  /\ callbacks[2].kind = "on_event"
  /\ LastCallback = "on_stop"

\* C10: if the queue becomes empty before a Stop event is dispatched, the
\* loop ends and on_stop is invoked: the next step of the loop is the end
\* of the run, and it is eventually taken.
C10_EmptyQueueEndsLoop ==
  /\ [][(pc = "running" /\ queue = <<>>) =>
          (pc' = "stopped" /\ callbacks' = notify_stop(callbacks))]_vars
  /\ (pc = "running" /\ queue = <<>>) ~> (pc = "stopped" /\ LastCallback = "on_stop")

\* C10 witness: the queue emptied after events were dispatched, no Stop
\* event among them, and the run has ended with on_stop.
C10_Witness ==
  /\ pc = "stopped"
  /\ ~StopDispatched
  /\ dispatched # <<>>
  /\ queue = <<>>
  /\ leftover = <<>>
  /\ LastCallback = "on_stop"
  /\ NumberOf("on_stop") = 1

-----------------------------------------------------------------------------
(* Claims about the auctions of a run *)

\* C11: in every auction the bidder with the strictly lower compound bid
\* is the winner; when the two compound bids are equal the winner is the
\* bidder the draw from the engine's random source names.
C11_LowerCompoundBidWins ==
  \A k \in 1..Len(auctions) :
    LET a == auctions[k]
    IN  /\ a.compound[0] < a.compound[1] => a.winner = 0
        /\ a.compound[0] > a.compound[1] => a.winner = 1
        /\ a.compound[0] = a.compound[1] => a.winner = a.coin

\* C11 witness: two auctions with equal compound bids, the draw gave the
\* first to the second bidder and the second to the first bidder.
C11_Witness ==
  /\ Len(auctions) = 2
  /\ \A k \in 1..2 : auctions[k].compound[0] = auctions[k].compound[1]
  /\ auctions[1].winner = 1
  /\ auctions[2].winner = 0

\* C12: after k auctions each bidder's reputation_history holds exactly k
\* entries, the i-th being the bidder's reputation when request i was
\* auctioned, and on_stop saves request index i with that reputation, for
\* the winner as well as the loser.
C12_ReputationHistoryPerRequest ==
  \A i \in {0, 1} :
    /\ Len(bidders[i].reputation_history) = sr_count
    /\ \A k \in 1..sr_count : bidders[i].reputation_history[k] = auctions[k].reputation[i]
    /\ (handler = "dm" /\ pc = "stopped") =>
          saved.reputation[i] = [k \in 1..sr_count |-> <<k, auctions[k].reputation[i]>>]

\* the cumulative winnings of a bidder before its k-th entry
PreviousWinnings(i, k) == IF k = 1 THEN 0 ELSE bidders[i].winning_history[k - 1]

\* C13: every auction gives each of the two bidders exactly one new
\* cumulative-winnings entry, the previous value (0 before the first) plus
\* 1 for the winner and the previous value for the loser: one entry per
\* auction, non-decreasing, in steps of 0 or 1.
C13_WinningsOneEntryPerAuction ==
  \A i \in {0, 1} :
    /\ Len(bidders[i].winning_history) = sr_count
    /\ Len(auctions) = sr_count
    /\ \A k \in 1..sr_count :
         bidders[i].winning_history[k] =
           PreviousWinnings(i, k) + (IF auctions[k].winner = i THEN 1 ELSE 0)

\* C13 witness: two auctions won by the same bidder: its entries are 1, 2
\* and the loser's 0, 0.
C13_Witness ==
  /\ sr_count = 2
  /\ \E i \in {0, 1} :
       /\ bidders[i].winning_history = <<1, 2>>
       /\ bidders[1 - i].winning_history = <<0, 0>>

\* the event dispatched last
LastDispatched == IF dispatched = <<>> THEN NoEvent ELSE dispatched[Len(dispatched)]

\* the last step of the run was an auction
JustAuctioned == LastDispatched.identifier = SR_EVENT

LastAuction == auctions[Len(auctions)]

EventsOf(q, identifier) == SelectSeq(q, LAMBDA e : e.identifier = identifier)

\* C14: an auction triggered by an arrival event at time t schedules
\* exactly one termination event, at time t + d, with payload (winner,
\* request id of this auction), and then exactly one next arrival event;
\* over the run there is one termination event per auction.
C14_AuctionSchedulesTerminationAndArrival ==
  /\ JustAuctioned =>
       /\ LastAuction.time = LastDispatched.time
       /\ Len(schedCalls) = 2
       /\ \A i \in 1..2 : schedCalls[i].raised = "none" /\ schedCalls[i].queued
       /\ schedCalls[1].event =
            Event(ST_EVENT, LastDispatched.time + Duration,
                  <<LastAuction.winner, LastAuction.sr_number>>)
       /\ schedCalls[2].event.identifier = SR_EVENT
       /\ SelectSeq(queue, LAMBDA e : e.identifier = ST_EVENT
                                       /\ e.bundle[2] = LastAuction.sr_number)
            = <<schedCalls[1].event>>
       /\ EventsOf(queue, SR_EVENT) = <<schedCalls[2].event>>
  /\ Len(EventsOf(queue, ST_EVENT)) + Len(EventsOf(dispatched, ST_EVENT)) = Len(auctions)

\* C14 witness: the second auction, won by the second bidder, has just
\* run; the termination events of both auctions and the next arrival
\* event are queued.
C14_Witness ==
  /\ JustAuctioned
  /\ Len(auctions) = 2
  /\ LastAuction.winner = 1
  /\ Len(EventsOf(queue, ST_EVENT)) = 2
  /\ Len(EventsOf(queue, SR_EVENT)) = 1
  /\ pc = "running"

\* C15: dispatching a termination event with payload (bidder, request id)
\* gives back to that bidder, the winner of that request's auction, exactly
\* the capacity dedicated to the request id, removes that dedication record
\* only, and changes nothing of the other bidder.
C15_TerminationReleasesOnlyItsRequest ==
  [][ (pc = "running" /\ queue # <<>> /\ Head(queue).identifier = ST_EVENT) =>
        LET i == Head(queue).bundle[1]
            sr_number == Head(queue).bundle[2]
        IN  /\ i = auctions[sr_number].winner
            /\ sr_number \in DOMAIN bidders[i].dedicated_bitrates
            /\ raised' = "none"
            /\ bidders'[i].available_bitrate =
                 bidders[i].available_bitrate + bidders[i].dedicated_bitrates[sr_number]
            /\ bidders'[i].dedicated_bitrates =
                 DictDel(bidders[i].dedicated_bitrates, sr_number)
            /\ bidders'[1 - i] = bidders[1 - i] ]_vars

\* C15 witness: a termination event has just been dispatched for a bidder
\* that has a second request in service, and only the capacity of the
\* terminated request is back; the other bidder has taken part in the
\* auctions.
C15_Witness ==
  /\ LastDispatched.identifier = ST_EVENT
  /\ raised = "none"
  /\ LET i == LastDispatched.bundle[1]
     IN  /\ DOMAIN bidders[i].dedicated_bitrates # {}
         /\ LastDispatched.bundle[2] \notin DOMAIN bidders[i].dedicated_bitrates
         /\ bidders[i].available_bitrate + SumValues(bidders[i].dedicated_bitrates)
              = bidders[i].total_bitrate
         /\ bidders[i].available_bitrate < bidders[i].total_bitrate
         /\ Len(bidders[1 - i].reputation_history) = 2

\* on_start of the DMEventHandler has just run
JustStarted == handler = "dm" /\ LastCallback = "on_start"

\* C16 as stated: on_start schedules the first arrival event at the
\* engine's start time: its time equals the engine clock at start.
C16_FirstArrivalAtStartTime ==
  JustStarted =>
    /\ Len(schedCalls) = 1
    /\ schedCalls[1].event.identifier = SR_EVENT
    /\ schedCalls[1].event.time = clock

\* C16 as amended: on_start schedules exactly one arrival event, generated
\* with the engine clock at start as its base time; it is accepted and
\* queued, and its time is not earlier than the clock at start.
C16_FirstArrivalFromStartTime ==
  JustStarted =>
    /\ clock = StartTime
    /\ Len(schedCalls) = 1
    /\ schedCalls[1].event.identifier = SR_EVENT
    /\ schedCalls[1].clock = clock
    /\ schedCalls[1].event.time >= clock
    /\ schedCalls[1].raised = "none" /\ schedCalls[1].queued
    /\ EventsOf(queue, SR_EVENT) = <<schedCalls[1].event>>
    /\ pc = "running"

\* C16 witness: on_start has scheduled the first arrival event for a time
\* later than the start time, behind the Stop event of the run.
C16_Witness ==
  /\ JustStarted
  /\ Len(queue) = 2
  /\ queue[1].identifier = STOP_EVENT
  /\ queue[2].identifier = SR_EVENT
  /\ queue[2].time > clock
  /\ clock = StartTime

\* the schedule() calls of the last step made for a generated arrival
\* event: the one of on_start, the second one of an auction step
GeneratedArrivals ==
  IF JustStarted THEN schedCalls
  ELSE IF JustAuctioned THEN SubSeq(schedCalls, 2, Len(schedCalls))
  ELSE <<>>

ArrivalPayloadOk(e) ==
  /\ e.bundle[1] \in W_SPACE
  /\ e.bundle[1] # 0
  /\ e.bundle[2] \in ServiceTypes

\* C17: every generated arrival event has identifier service_request, a
\* time not earlier than its base time (the clock at start for the first,
\* the time of the arrival just auctioned for the others), a price weight
\* from the discretized sample space, never 0, and a service type from the
\* configured set.
C17_GeneratedArrivalWellFormed ==
  /\ \A i \in 1..Len(GeneratedArrivals) :
       LET c == GeneratedArrivals[i]
       IN  /\ c.event.identifier = SR_EVENT
           /\ c.clock = IF JustStarted THEN StartTime ELSE LastDispatched.time
           /\ c.event.time >= c.clock
           /\ ArrivalPayloadOk(c.event)
  /\ JustStarted => Len(GeneratedArrivals) = 1
  /\ (JustAuctioned /\ pc = "running") => Len(GeneratedArrivals) = 1
  /\ \A i \in 1..Len(dispatched) :
       dispatched[i].identifier = SR_EVENT => ArrivalPayloadOk(dispatched[i])

\* C17 witness: an auction has generated the next arrival event, an EMAIL
\* request with price weight 1, strictly later than its base time.
C17_Witness ==
  /\ JustAuctioned
  /\ Len(GeneratedArrivals) = 1
  /\ GeneratedArrivals[1].event.time > LastDispatched.time
  /\ GeneratedArrivals[1].event.bundle = <<100, EMAIL>>
  /\ LastDispatched.time > StartTime

\* the request ids carried by the termination events of the run, in the
\* order dispatched, then queued
TerminationIds ==
  LET evs == EventsOf(dispatched, ST_EVENT) \o EventsOf(queue, ST_EVENT)
  IN  [k \in 1..Len(evs) |-> evs[k].bundle[2]]

\* C18: the request counter grows by exactly 1 per auction: after k
\* auctions the ids given to service_request and carried by termination
\* events are the distinct integers 1..k, none used twice.
C18_RequestIdsDistinct ==
  /\ sr_count = Len(auctions)
  /\ \A k \in 1..Len(auctions) : auctions[k].sr_number = k
  /\ Len(TerminationIds) = sr_count
  /\ {TerminationIds[k] : k \in 1..Len(TerminationIds)} = 1..sr_count
  /\ \A i \in {0, 1} : DOMAIN bidders[i].dedicated_bitrates \subseteq 1..sr_count
  /\ DOMAIN bidders[0].dedicated_bitrates \cap DOMAIN bidders[1].dedicated_bitrates = {}

\* C18 witness: two auctions have run; request 1 has terminated, request 2
\* is in service on the other bidder and its termination event is queued.
C18_Witness ==
  /\ sr_count = 2
  /\ EventsOf(dispatched, ST_EVENT) # <<>>
  /\ LastDispatched.identifier = SR_EVENT
  /\ TerminationIds = <<1, 2>>
  /\ auctions[1].winner # auctions[2].winner
  /\ DOMAIN bidders[auctions[2].winner].dedicated_bitrates = {2}

-----------------------------------------------------------------------------
(* Claims about the reputation rating update mechanisms *)

\* C19: for a Bidder bound to the lebodic policy with window size n, after
\* any sequence of service_request calls the success window holds at most
\* n entries (an update on a full window evicts the oldest entry).
C19_SuccessWindowBounded ==
  Bidder0.reputation_params.method = "lebodic" =>
    Len(Bidder0.success_list) <= Bidder0.reputation_params.window_size

\* the number of successes among the last n reports of s
RecentSuccesses(s, n) == Cardinality({k \in (Len(s) - n + 1)..Len(s) : s[k] = 1})

\* C20: for every window size n >= 1, rating r and 0/1 report list s, the
\* lebodic update gives r when len(s) < n, and 1 - (sum of the last n
\* entries of s)/n when len(s) >= n.
C20_LebodicUpdate ==
  probe.fn = "lebodic" =>
    LET n == probe.window_size
        s == probe.success_list
    IN  IF Len(s) < n
        THEN probe.result = probe.reputation
        ELSE n * (RepScale - probe.result) = RepScale * RecentSuccesses(s, n)

\* C20 witness: the update applied with window size 5 to the rating 0.5
\* and the reports 1, 0, 1, 0, 1, 0, 1 gives 0.4 (the case of
\* test_lebodics_reputation_update).
C20_Witness ==
  /\ probe.fn = "lebodic"
  /\ probe.window_size = 5
  /\ probe.reputation = RepScale \div 2
  /\ probe.success_list = <<1, 0, 1, 0, 1, 0, 1>>
  /\ 10 * probe.result = 4 * RepScale

\* k/100/(1-k) for the commitment k = c/100, in units of 1/RepScale
Penalty(c) == (c * RepScale) \div (100 * (100 - c))

\* the fixed step 0.01
Step == RepScale \div 100

\* C21: the mcdiarmid update, for a commitment in (0,1) and a rating in
\* [0,1]: when the most recent report is 1 the rating goes down by exactly
\* 0.01, floored at 0; when it is 0 the rating goes up by k/100/(1-k),
\* capped at 1.
C21_McdiarmidUpdate ==
  probe.fn = "mcdiarmid" =>
    LET r == probe.reputation
        s == probe.success_list
    IN  /\ s[Len(s)] = 1 =>
             /\ r - Step >= 0 => probe.result = r - Step
             /\ r - Step < 0 => probe.result = 0
             /\ r > 0 => probe.result < r
        /\ s[Len(s)] = 0 =>
             /\ r + Penalty(probe.commitment) <= RepScale =>
                  probe.result = r + Penalty(probe.commitment)
             /\ r + Penalty(probe.commitment) > RepScale => probe.result = RepScale
             /\ r < RepScale => probe.result > r

\* C21 witness: with commitment 0.99 a failure report takes the rating 0.5
\* to the cap 1 (the penalty alone is 0.99).
C21_Witness ==
  /\ probe.fn = "mcdiarmid"
  /\ probe.commitment = 99
  /\ probe.reputation = RepScale \div 2
  /\ probe.success_list = <<1, 0>>
  /\ probe.result = RepScale

\* C22: for a Bidder created with a reputation in [0,1] and either
\* reputation policy, the reputation is in [0,1] after every
\* service_request, whatever service_request / finish_servicing_request
\* calls are made.
C22_ReputationInRange ==
  /\ 0 <= Bidder0.reputation
  /\ Bidder0.reputation <= RepScale

\* C22 witness: a mcdiarmid Bidder that has reached the rating 1 by the
\* penalties for failed requests gets a further failure report and stays
\* at 1.
C22_Witness ==
  /\ lastCall.op = "service_request"
  /\ Bidder0.reputation_params.method = "mcdiarmid"
  /\ Bidder0.success_list = <<1, 0, 0>>
  /\ Bidder0.reputation = RepScale

-----------------------------------------------------------------------------
(* Claims about method resolution and Bidder construction *)

\* a params dict that names a registered method and holds the parameter
\* the method requires
Resolvable(params) ==
  /\ "method" \in DOMAIN params
  /\ \/ params["method"] = "myopic"
     \/ params["method"] = "lebodic" /\ "window_size" \in DOMAIN params
     \/ params["method"] = "mcdiarmid" /\ "commitment" \in DOMAIN params

\* C23: BidderHelper.method(params) fails with UnknownMethodError when
\* params has no 'method' key, names a method that is not registered, or
\* lacks a parameter the named method requires.
C23_UnknownMethodError ==
  (probe.fn = "method" /\ ~Resolvable(probe.params)) =>
     probe.raised = "UnknownMethodError"

\* C24: for every valid configuration BidderHelper.method(params) returns
\* the registered function of the named method bound to exactly the values
\* of its required parameters, in declared order: none for myopic,
\* (window_size) for lebodic, (commitment) for mcdiarmid; other keys of
\* params are ignored.
C24_MethodBinding ==
  (probe.fn = "method" /\ Resolvable(probe.params)) =>
     /\ probe.raised = "none"
     /\ probe.params["method"] = "myopic" =>
          probe.result = [func |-> "myopic_bidding", args |-> <<>>]
     /\ probe.params["method"] = "lebodic" =>
          probe.result = [func |-> "lebodics_reputation_update",
                          args |-> <<probe.params["window_size"]>>]
     /\ probe.params["method"] = "mcdiarmid" =>
          probe.result = [func |-> "mcdiarmids_reputation_update",
                          args |-> <<probe.params["commitment"]>>]

\* C24 witness: mcdiarmid resolved from a dict that also holds a window
\* size: the function is bound to the commitment alone.
C24_Witness ==
  /\ probe.fn = "method"
  /\ probe.params = [method |-> "mcdiarmid", commitment |-> 50, window_size |-> 5]
  /\ probe.result = [func |-> "mcdiarmids_reputation_update", args |-> <<50>>]

\* C25: constructing a Bidder fails with UninitializedArgumentError
\* whenever one of its five arguments is absent, and succeeds whenever all
\* five are given with resolvable strategy configurations (an initial
\* reputation of 0 included).
C25_ConstructionChecksArguments ==
  probe.fn = "Bidder" =>
    /\ (\E a \in ArgNames : probe.args[a] = None) =>
          probe.raised = "UninitializedArgumentError" /\ probe.bidder = None
    /\ ( /\ \A a \in ArgNames : probe.args[a] # None
         /\ Resolvable(probe.args["bidding_params"][1])
         /\ Resolvable(probe.args["reputation_params"][1]) ) =>
          /\ probe.raised = "none"
          /\ probe.bidder # None
          /\ probe.bidder[1].reputation = probe.args["reputation"][1]
          /\ probe.bidder[1].total_bitrate = probe.args["total_bitrate"][1]
          /\ probe.bidder[1].available_bitrate = probe.args["total_bitrate"][1]
          /\ probe.bidder[1].costs = probe.args["costs"][1]

\* C25 witness: a Bidder constructed with the initial reputation 0, after
\* a construction that failed for a missing argument.
C25_Witness ==
  /\ probe.fn = "Bidder"
  /\ probe.constructions = 2
  /\ probe.raised = "none"
  /\ probe.args["reputation"] = Given(0)
  /\ probe.bidder # None
  /\ probe.bidder[1].reputation = 0
  /\ probe.bidder[1].reputation_params["method"] = "mcdiarmid"
  /\ Len(probe.ids) = 1

-----------------------------------------------------------------------------
(* Claims about myopic bidding *)

\* C26: for every cost c and ratings r, r', myopic bidding gives the
\* infinite-bid sentinel for price weight 0, whatever the ratings, and
\* exactly (1 + c)/2 for price weight 1 and for r = r' with a price weight
\* other than 0.
C26_MyopicSpecialCases ==
  probe.fn = "myopic" =>
    /\ probe.price_weight = 0 => probe.result = Infinity
    /\ ( /\ probe.price_weight # 0
         /\ \/ probe.price_weight = 100
            \/ probe.reputation = probe.enemy_reputation ) =>
          2 * probe.result = RepScale + probe.cost

\* C26 witness: price weight 0, cost 0.5, ratings 0.25 and 0.5 (the case of
\* test_myopic_bidding_for_price_weight_0): the sentinel.
C26_Witness ==
  /\ probe.fn = "myopic"
  /\ probe.price_weight = 0
  /\ probe.cost = RepScale \div 2
  /\ probe.reputation = RepScale \div 4
  /\ probe.enemy_reputation = RepScale \div 2
  /\ probe.result = Infinity

-----------------------------------------------------------------------------
(* Claims about service_request *)

\* C27: service_request allocates to the request the full bit-rate
\* requirement of its service type when the available capacity is at least
\* the requirement, and otherwise all the remaining capacity, leaving 0
\* available; the amount is recorded under the request id.
C27_Allocation ==
  lastCall.op = "service_request" =>
    LET required == BITRATES(lastCall.service_type)
        before == lastCall.pre_available
    IN  /\ lastCall.sr_number \in DOMAIN Bidder0.dedicated_bitrates
        /\ before >= required =>
             /\ Bidder0.dedicated_bitrates[lastCall.sr_number] = required
             /\ Bidder0.available_bitrate = before - required
        /\ before < required =>
             /\ Bidder0.dedicated_bitrates[lastCall.sr_number] = before
             /\ Bidder0.available_bitrate = 0

\* C27 witness: the second web-browsing request of a Bidder with total
\* bit-rate 1000 gets the remaining 488 (the case of
\* test_available_bitrate_update).
C27_Witness ==
  /\ lastCall.op = "service_request"
  /\ lastCall.sr_number = 2
  /\ lastCall.service_type = WEB_BROWSING
  /\ Bidder0.total_bitrate = 1000
  /\ Bidder0.dedicated_bitrates = (1 :> WebBitrate) @@ (2 :> 1000 - WebBitrate)
  /\ Bidder0.available_bitrate = 0

\* the success indicator of a request: 1 iff the capacity covers the
\* requirement of the service type
Indicator(available, service_type) ==
  IF available >= BITRATES(service_type) THEN 1 ELSE 0

\* C28: every service_request appends exactly one success indicator,
\* computed from the capacity available before this request's allocation
\* (1 iff it is at least the requirement), and the reputation update of the
\* same call is computed from the report list that includes the new
\* indicator.
C28_IndicatorBeforeAllocation ==
  [][(calls' = calls + 1 /\ lastCall'.op = "service_request") =>
       LET old == bidders[0]
           reports == Append(old.success_list,
                             Indicator(old.available_bitrate, lastCall'.service_type))
       IN  /\ bidders'[0].success_list = reports
           /\ bidders'[0].reputation =
                reputation_update_method(old.reputation_params, old.reputation, reports)
     ]_vars

\* C28 witness: a web-browsing request met by a mcdiarmid Bidder of rating
\* 0.5 with all of its 1000 free is reported as a success although only 488
\* is left after the allocation, and the rating goes down to 0.49.
C28_Witness ==
  /\ lastCall.op = "service_request"
  /\ lastCall.service_type = WEB_BROWSING
  /\ lastCall.pre_available = 1000
  /\ Bidder0.available_bitrate < WebBitrate
  /\ Bidder0.reputation_params.method = "mcdiarmid"
  /\ Bidder0.success_list = <<1>>
  /\ Bidder0.reputation = RepScale \div 2 - Step

-----------------------------------------------------------------------------
(* Claims about cost generation *)

-----------------------------------------------------------------------------
(* Claims about who changes a Bidder *)

\* the bidders after the submit_bid and service_request calls of the auction
\* that has just been recorded, and nothing else
AfterBidsAndRequest ==
  LET a == auctions'[Len(auctions')]
      service_type == Head(queue).bundle[2]
      s1 == [i \in {0, 1} |-> submit_bid(bidders[i], service_type, a.draws[i])]
      s2 == [s1 EXCEPT ![a.winner] = submit_bid(@, service_type, a.draws[a.winner])]
  IN  [s2 EXCEPT ![a.winner] = service_request(@, sr_count', service_type)]

\* the bidders after the finish_servicing_request call of the termination
\* event at the head of the queue
AfterFinish ==
  LET e == Head(queue)
  IN  [bidders EXCEPT ![e.bundle[1]] = finish_servicing_request(@, e.bundle[2])]

\* this step of the run is an auction / the dispatch of a termination event
\* whose request is in service
AuctionStep == Len(auctions') = Len(auctions) + 1
TerminationStep ==
  /\ Len(dispatched') = Len(dispatched) + 1
  /\ Head(queue).identifier = ST_EVENT
  /\ raised' = "none"

WithoutWinnings(b) == [b EXCEPT !.winning_history = <<>>]

\* C31 as stated: during a run a Bidder's state changes only by what
\* submit_bid, service_request and finish_servicing_request do to it.
C31_OnlyThreeMutators ==
  [][IF AuctionStep THEN bidders' = AfterBidsAndRequest
     ELSE IF TerminationStep THEN bidders' = AfterFinish
     ELSE bidders' = bidders]_vars

\* C31 (amended): during a run a Bidder's state changes only by what
\* submit_bid, service_request, finish_servicing_request and
\* update_winning_history do to it: an auction leaves every field but the
\* winnings history as the submit_bid and service_request calls leave it
\* and extends the winnings history of both bidders by
\* update_winning_history; a termination event changes the bidder only by
\* finish_servicing_request; no other step of the run changes a Bidder.
C31_FourMutators ==
  [][IF AuctionStep
     THEN \A i \in {0, 1} :
            /\ WithoutWinnings(bidders'[i]) = WithoutWinnings(AfterBidsAndRequest[i])
            /\ bidders'[i].winning_history =
                 update_winning_history(bidders[i],
                                        i = auctions'[Len(auctions')].winner).winning_history
     ELSE IF TerminationStep THEN bidders' = AfterFinish
     ELSE bidders' = bidders]_vars

\* C31 witness: after the first auction the loser, which has served no
\* request, has a winnings history of one entry, written by
\* update_winning_history.
C31_Witness ==
  /\ Len(auctions) = 1
  /\ LET loser == 1 - auctions[1].winner
     IN  /\ bidders[loser].winning_history = <<0>>
         /\ bidders[loser].success_list = <<>>
         /\ Len(bidders[loser].reputation_history) = 1
         /\ bidders[1 - loser].winning_history = <<1>>

-----------------------------------------------------------------------------
(* Claims about the winner of the test configuration *)

\* _select_winner has been called on a first bidder rated 0.25 and a second
\* bidder rated 0.75
SelectedLowThenHigh ==
  /\ probe.fn = "select_winner"
  /\ bidders[0].reputation = RepScale \div 4
  /\ bidders[1].reputation = (3 * RepScale) \div 4

\* the winners the claim names: the second bidder at price weight 0.5, the
\* first at 0.25, the second at 0.75
NamedWinners ==
  /\ probe.price_weight = 50 => probe.winner = 1
  /\ probe.price_weight = 25 => probe.winner = 0
  /\ probe.price_weight = 75 => probe.winner = 1

\* C32 as stated: with two myopic bidders rated 0.25 (first) and 0.75
\* (second) and ample capacity, whatever their costs, _select_winner returns
\* the second bidder at price weight 0.5, the first at 0.25 and the second
\* at 0.75.
C32_WinnersByReputation == SelectedLowThenHigh => NamedWinners

\* C32 (amended): with two myopic bidders rated 0.25 (first) and 0.75
\* (second), of costs 0.75 (first) and 0.25 (second) for the requested
\* service and with ample capacity, _select_winner returns the second bidder
\* at price weight 0.5, the first at 0.25 and the second at 0.75.
C32_WinnersOfTestConfiguration ==
  ( /\ SelectedLowThenHigh
    /\ bidders[0].costs[WEB_BROWSING] = (3 * RepScale) \div 4
    /\ bidders[1].costs[WEB_BROWSING] = RepScale \div 4 )
  => NamedWinners

\* C32 witness: at price weight 0.25 the first bidder of the test
\* configuration wins with the strictly lower compound bid.
C32_Witness ==
  /\ SelectedLowThenHigh
  /\ bidders[0].costs[WEB_BROWSING] = (3 * RepScale) \div 4
  /\ bidders[1].costs[WEB_BROWSING] = RepScale \div 4
  /\ probe.price_weight = 25
  /\ probe.compound[1] < probe.compound[2]
  /\ probe.winner = 0

-----------------------------------------------------------------------------
(* Claims about requests in service during a run *)

\* the termination events for bidder i that are pending in the queue
PendingTerminations(i) ==
  SelectSeq(queue, LAMBDA e : e.identifier = ST_EVENT /\ e.bundle[1] = i)

\* C33: in a run driven by DMEventHandler, between event dispatches the
\* request ids in a bidder's dedicated-capacity map are exactly the request
\* ids of the termination events for that bidder pending in the queue, one
\* event per id; hence every dispatched termination event finds its
\* request id and finish_servicing_request never fails during a run.
C33_InServiceIffTerminationPending ==
  /\ \A i \in {0, 1} :
       LET pending == PendingTerminations(i)
       IN  /\ DOMAIN bidders[i].dedicated_bitrates
                = {pending[k].bundle[2] : k \in 1..Len(pending)}
           /\ Len(pending) = Cardinality(DOMAIN bidders[i].dedicated_bitrates)
  /\ raised \notin {"KeyError", "UnknownRequestError"}

\* C33 witness: one bidder has won two auctions and serves both requests,
\* with two termination events pending; the first of them is dispatched
\* next.
C33_Witness ==
  /\ \E i \in {0, 1} :
       /\ DOMAIN bidders[i].dedicated_bitrates = {1, 2}
       /\ Len(PendingTerminations(i)) = 2
  /\ pc = "running"
  /\ Head(queue).identifier = ST_EVENT

-----------------------------------------------------------------------------
(* Claims about the arrival process of a run *)

\* a Stop event is pending in the queue
StopQueued == \E k \in 1..Len(queue) : is_terminal(queue[k])

\* the run is driven by DMEventHandler and on_start has returned
RunningDM == handler = "dm" /\ pc = "running"

\* C34: in a run driven by DMEventHandler, from the return of on_start
\* until the loop ends the queue holds exactly one pending service-request
\* event between dispatches, so it never becomes empty; the run ends only
\* by the dispatch of a Stop event; and when a Stop event is pending the
\* run does end, provided the arrivals before it are no more than the
\* auctions the model follows.
C34_OnePendingArrival ==
  /\ [](RunningDM => Len(EventsOf(queue, SR_EVENT)) = 1)
  /\ []((handler = "dm" /\ pc = "stopped") =>
          /\ LastDispatched.identifier = STOP_EVENT
          /\ Len(EventsOf(leftover, SR_EVENT)) = 1)
  /\ [][(RunningDM /\ ~StopQueued) => pc' # "stopped"]_vars
  /\ (RunningDM /\ StopQueued) ~> (pc = "stopped" \/ sr_count = MaxAuctions)

\* C34 witness: a run with auctions has been ended by its Stop event, the
\* next arrival event still pending.
C34_Witness ==
  /\ handler = "dm"
  /\ pc = "stopped"
  /\ sr_count >= 1
  /\ sr_count < MaxAuctions
  /\ LastDispatched.identifier = STOP_EVENT
  /\ Len(EventsOf(queue, SR_EVENT)) = 1

\* C35: every event DMEventHandler schedules while the clock is t has a
\* time of at least t, so no schedule() call the handler makes during a run
\* is rejected as lying in the past, and every such event is queued.
C35_HandlerSchedulesNoPast ==
  /\ \A k \in 1..Len(schedCalls) :
        (handler = "dm" /\ schedCalls[k].event.identifier \in {SR_EVENT, ST_EVENT})
          => /\ schedCalls[k].time >= schedCalls[k].clock
             /\ schedCalls[k].raised = "none"
             /\ schedCalls[k].queued
  /\ (handler = "dm" /\ pc # "idle") => raised # "InvalidScheduleError"

\* C35 witness: an arrival dispatched after the clock has advanced has
\* scheduled the termination at clock + duration and the next arrival with
\* delay 0, at the clock itself.
C35_Witness ==
  /\ handler = "dm" /\ pc = "running" /\ clock > 0
  /\ Len(schedCalls) = 2
  /\ schedCalls[1].event.identifier = ST_EVENT
  /\ schedCalls[1].time = clock + Duration
  /\ schedCalls[2].event.identifier = SR_EVENT
  /\ schedCalls[2].time = clock
  /\ schedCalls[2].clock = clock

-----------------------------------------------------------------------------
(* Claims about the totals of a run *)

\* the (service type, price weight) keys of the recorded winning prices
PriceKeys == {<<prices[k][1], prices[k][2]>> : k \in 1..Len(prices)}

\* self._prices[service_type][price_weight]
PricesAt(key) == SelectSeq(prices, LAMBDA p : <<p[1], p[2]>> = key)

RECURSIVE RecordedPrices(_)
\* the number of winning prices recorded under the keys
RecordedPrices(keys) ==
  IF keys = {} THEN 0
  ELSE LET key == CHOOSE x \in keys : TRUE
       IN  Len(PricesAt(key)) + RecordedPrices(keys \ {key})

\* the last entry of a bidder's cumulative winnings (0 before any auction)
LastWinnings(i) ==
  IF bidders[i].winning_history = <<>> THEN 0
  ELSE bidders[i].winning_history[Len(bidders[i].winning_history)]

\* C36: after k auctions the last cumulative-winnings entries of the two
\* bidders sum to exactly k, both winnings histories have length k, and
\* the number of recorded winning prices over all (service type, price
\* weight) keys is k.
C36_TotalsAfterAuctions ==
  /\ LastWinnings(0) + LastWinnings(1) = sr_count
  /\ Len(bidders[0].winning_history) = sr_count
  /\ Len(bidders[1].winning_history) = sr_count
  /\ RecordedPrices(PriceKeys) = sr_count

\* C36 witness: two auctions, one won by each bidder, their prices recorded
\* under two different keys.
C36_Witness ==
  /\ sr_count = 2
  /\ LastWinnings(0) = 1 /\ LastWinnings(1) = 1
  /\ Cardinality(PriceKeys) = 2

-----------------------------------------------------------------------------
(* Claims about Bidder ids *)

\* the step is a Bidder(...) construction that failed
FailedConstruction ==
  /\ probe'.fn = "Bidder"
  /\ probe'.constructions = probe.constructions + 1
  /\ probe'.raised # "none"

\* C37: every successfully constructed Bidder gets an id different from
\* all earlier Bidders, the ids of the successfully constructed Bidders are
\* consecutive starting at 0, and a construction that fails (missing
\* argument or unresolvable strategy configuration) leaves the id counter
\* unchanged.
C37_IdsConsecutive ==
  /\ [](\A k \in 1..Len(probe.ids) : probe.ids[k] = k - 1)
  /\ [][FailedConstruction => probe'.id_counter = probe.id_counter]_vars

-----------------------------------------------------------------------------
(* Claims about the legacy Bidder and the modular Bidder *)

\* the two Bidders agree on reputation and available capacity, and on the
\* success indicator of the service_request just made
InStep ==
  /\ probe.legacy.reputation = bidders[0].reputation
  /\ probe.legacy.available_bitrate = bidders[0].available_bitrate
  /\ probe.fn = "service_request" => probe.legacy_indicator = probe.indicator

\* C38: for the same total capacity, initial reputation and sequence of
\* service_request / finish_servicing_request calls, the legacy Bidder
\* with reputation_window_size n and the modular Bidder bound to lebodic
\* with window_size n have the same reputation, available capacity and
\* success indicator after every call.
C38_LegacyRefinement ==
  /\ InStep
  /\ probe.legacy_raised = raised

\* as long as the legacy Bidder had submitted a bid before it was asked to
\* service a request, the two Bidders are in step
InStepAfterBid == probe.attribute_errors = 0 => C38_LegacyRefinement

\* both Bidders have recomputed the rating over a window of 5 reports that
\* has moved on by one report, with failures among the reports
WindowMoved ==
  /\ probe.attribute_errors = 0
  /\ probe.window_size = 5
  /\ Len(bidders[0].success_list) = 6
  /\ bidders[0].reputation \notin {0, RepScale \div 2, RepScale}

-----------------------------------------------------------------------------
(* Claims about the batch runner *)

\* the child processes that have not exited
Alive == {k \in 1..Len(probe.procs) : ~probe.procs[k].exited}

====
